---- MODULE Spec2Model ----
(***************************************************************************)
(* litebrite: a work-item tracker whose single document (items plus        *)
(* dependency edges) is stored on a git branch, edited by several actors   *)
(* and reconciled by a schema-aware three-way merge.                       *)
(*                                                                         *)
(* The module holds these specifications over one set of variables:        *)
(*   Spec        the graph engine of store.rs acting on one document      *)
(*   SpecReplica two replicas edited from a common base, then merged       *)
(*   SpecMerge   merge_stores applied to bounded base/ours/theirs inputs   *)
(*   SpecSync    actors running claim / update / sync against one remote   *)
(*   SpecSyncFair  SpecSync in which a started claim keeps running         *)
(*   SpecOps     the graph engine with every call and its pre-state kept   *)
(*   SpecDoc     resolve, ready and close applied to bounded documents     *)
(*   SpecJson    documents serialized to snapshots and parsed back         *)
(*   SpecCmd     claim / unclaim / sync / close / delete, unrelated roots  *)
(*   SpecLocal   the same commands in repositories without a remote        *)
(*   SpecParent  set_parent applied to forests and to cyclic documents     *)
(*   SpecSettle  SpecCmd followed by three sync runs in a row              *)
(*   SpecEdit    one side edited, then merged with the untouched base      *)
(***************************************************************************)
EXTENDS Integers, Sequences, FiniteSets, TLC

VARIABLES
  store,      \* Spec: the in-memory Store the graph engine mutates
  result,     \* Spec: what the last graph-engine call returned
  pre,        \* SpecOps / SpecDoc: the Store the last call was made on
  call,       \* SpecOps / SpecDoc: the last call, its name and arguments
  now,        \* Utc::now(), advanced by every mutating call
  base,       \* SpecReplica / SpecMerge: the common-ancestor Store
  ours,       \* SpecReplica / SpecMerge: the local Store
  theirs,     \* SpecReplica / SpecMerge: the remote Store
  merged,     \* SpecReplica / SpecMerge: the last result of merge_stores
  phase,      \* SpecReplica / SpecMerge: what the last step was
  commits,    \* SpecSync: the commit graph, commit k is commits[k]
  remoteHead, \* SpecSync: refs/heads/litebrite on origin
  localHead,  \* SpecSync: per actor, refs/heads/litebrite
  tracking,   \* SpecSync: per actor, refs/remotes/origin/litebrite
  pc,         \* SpecSync: per actor, the position inside the running command
  mem,        \* SpecSync: per actor, the in-memory Store `s` of the command
  outcome,    \* SpecSync: per actor, how its claim call returned
  cmd,        \* SpecSync: per actor, the record of its last command
  has_remote, \* SpecSync: git::has_remote(), whether origin is configured
  edits       \* SpecSync: number of update commands run so far

graphVars == <<store, result, pre, call>>
mergeVars == <<base, ours, theirs, merged, phase>>
syncVars == <<commits, remoteHead, localHead, tracking, pc, mem, outcome, cmd,
              has_remote, edits>>
vars == <<store, result, pre, call, now, base, ours, theirs, merged, phase,
          commits, remoteHead, localHead, tracking, pc, mem, outcome, cmd,
          has_remote, edits>>

(***************************************************************************)
(* Bounds of the model.                                                    *)
(***************************************************************************)
MaxItems == 3
MaxOps == 5
MaxReplicaOps == 5
MaxSideOps == 1
MaxCommits == 7
MaxEdits == 1
MaxCalls == 4
MaxEditOps == 2

(***************************************************************************)
(* Data model (model.rs).                                                  *)
(***************************************************************************)
\* Option::None for the string-valued optional fields.
None == "None"

\* The characters an id is made of, as their code points' order.
Chars == {1, 2}

\* Ids generate_id can return: fixed-length codes over Chars.
IDS == Chars \X Chars

\* What a caller can type where an id is expected: any prefix of an id.
Prefixes == {<<>>} \cup {<<c>> : c \in Chars} \cup IDS

ItemType == {"Epic", "Feature", "Task"}
Status == {"Open", "Closed"}
DepType == {"Parent", "Blocks"}

Item(id, title, description, item_type, status, priority, claimed_by, created_at, updated_at) ==
  [id |-> id, title |-> title, description |-> description, item_type |-> item_type,
   status |-> status, priority |-> priority, claimed_by |-> claimed_by,
   created_at |-> created_at, updated_at |-> updated_at]

Dep(from_id, to_id, dep_type) ==
  [from_id |-> from_id, to_id |-> to_id, dep_type |-> dep_type]

\* Store::default(): no items, no deps. items is a map keyed by id.
EmptyStore == [items |-> [k \in {} |-> None], deps |-> <<>>]

Keys(s) == DOMAIN s.items

contains_key(s, id) == id \in Keys(s)

\* BTreeMap::insert: the entry under `id` is added or replaced.
insert(items, id, item) ==
  [k \in (DOMAIN items) \cup {id} |-> IF k = id THEN item ELSE items[k]]

\* BTreeMap::remove
remove(items, id) == [k \in (DOMAIN items) \ {id} |-> items[k]]

\* Vec::retain
retain(deps, keep(_)) == SelectSeq(deps, keep)

\* Vec::contains / the set of elements of a Vec
Elems(seq) == {seq[i] : i \in 1..Len(seq)}

\* str::starts_with
starts_with(id, prefix) ==
  /\ Len(prefix) <= Len(id)
  /\ SubSeq(id, 1, Len(prefix)) = prefix

(***************************************************************************)
(* Results. The code returns Err(String); each message is one entry of     *)
(* the error taxonomy.                                                     *)
(***************************************************************************)
Ok(v) == [ok |-> TRUE, val |-> v, err |-> None]
Err(e) == [ok |-> FALSE, val |-> <<>>, err |-> e]
Unit == <<>>

(***************************************************************************)
(* Graph engine (store.rs).                                                *)
(***************************************************************************)
\* resolve_id without the exact-match test.
resolve_id_prefix_only(s, prefix) ==
  LET matches == {id \in Keys(s) : starts_with(id, prefix)}
  IN  CASE Cardinality(matches) = 0 -> Err("NotFound")
        [] Cardinality(matches) = 1 -> Ok(CHOOSE id \in matches : TRUE)
        [] OTHER -> Err("AmbiguousPrefix")

resolve_id(s, prefix) ==
  IF contains_key(s, prefix) THEN Ok(prefix)
  ELSE LET matches == {id \in Keys(s) : starts_with(id, prefix)}
       IN  CASE Cardinality(matches) = 0 -> Err("NotFound")
             [] Cardinality(matches) = 1 -> Ok(CHOOSE id \in matches : TRUE)
             [] OTHER -> Err("AmbiguousPrefix")

\* generate_id: some id that is not among the existing ones (the hash of the
\* title, the clock and a nonce, retried until it is fresh).
generate_id(existing) == IDS \ existing

\* parent_id is <<>> for Option::None and <<p>> for Some(p).
create_item(s, title, item_type, priority, description, parent_id, id, t) ==
  LET r1 == IF parent_id = <<>> THEN Ok(Unit) ELSE resolve_id(s, parent_id[1])
      item == Item(id, title, description, item_type, "Open", priority, None, t, t)
      s1 == [s EXCEPT !.items = insert(s.items, id, item)]
      r2 == IF parent_id = <<>> THEN Ok(Unit) ELSE resolve_id(s1, parent_id[1])
  IN  IF ~r1.ok THEN [store |-> s, res |-> r1]
      ELSE IF ~r2.ok THEN [store |-> s1, res |-> r2]
      ELSE IF parent_id = <<>> THEN [store |-> s1, res |-> Ok(id)]
      ELSE [store |-> [s1 EXCEPT !.deps = Append(s1.deps, Dep(id, r2.val, "Parent"))],
            res |-> Ok(id)]

\* delete_item dropping only the edges that leave the deleted item.
delete_item_from_only(s, prefix) ==
  LET r == resolve_id(s, prefix)
  IN  IF ~r.ok THEN [store |-> s, res |-> r]
      ELSE LET id == r.val
               keep(d) == d.from_id # id
           IN  [store |-> [items |-> remove(s.items, id), deps |-> retain(s.deps, keep)],
                res |-> Ok(Unit)]

delete_item(s, prefix) ==
  LET r == resolve_id(s, prefix)
  IN  IF ~r.ok THEN [store |-> s, res |-> r]
      ELSE LET id == r.val
               keep(d) == d.from_id # id /\ d.to_id # id
           IN  [store |-> [items |-> remove(s.items, id), deps |-> retain(s.deps, keep)],
                res |-> Ok(Unit)]

\* get_children reading the Parent edges in the wrong direction.
get_children_reversed(s, id) ==
  {d.to_id : d \in {e \in Elems(s.deps) : e.dep_type = "Parent" /\ e.from_id = id}}

get_children(s, id) ==
  {d.from_id : d \in {e \in Elems(s.deps) : e.dep_type = "Parent" /\ e.to_id = id}}

\* iter().find(): the first Parent edge leaving id, <<>> when there is none.
get_parent(s, id) ==
  LET isParent(d) == d.dep_type = "Parent" /\ d.from_id = id
      found == SelectSeq(s.deps, isParent)
  IN  IF found = <<>> THEN <<>> ELSE <<found[1].to_id>>

get_blockers(s, id) ==
  {d.from_id : d \in {e \in Elems(s.deps) : e.dep_type = "Blocks" /\ e.to_id = id}}

get_blocking(s, id) ==
  {d.to_id : d \in {e \in Elems(s.deps) : e.dep_type = "Blocks" /\ e.from_id = id}}

\* add_blocking_dep without the test for an existing edge.
add_blocking_dep_no_contains(s, blocker, blocked) ==
  LET r1 == resolve_id(s, blocker)
      r2 == resolve_id(s, blocked)
  IN  IF ~r1.ok THEN [store |-> s, res |-> r1]
      ELSE IF ~r2.ok THEN [store |-> s, res |-> r2]
      ELSE IF r1.val = r2.val THEN [store |-> s, res |-> Err("SelfReference")]
      ELSE [store |-> [s EXCEPT !.deps = Append(s.deps, Dep(r1.val, r2.val, "Blocks"))],
            res |-> Ok(Unit)]

add_blocking_dep(s, blocker, blocked) ==
  LET r1 == resolve_id(s, blocker)
      r2 == resolve_id(s, blocked)
  IN  IF ~r1.ok THEN [store |-> s, res |-> r1]
      ELSE IF ~r2.ok THEN [store |-> s, res |-> r2]
      ELSE IF r1.val = r2.val THEN [store |-> s, res |-> Err("SelfReference")]
      ELSE LET dep == Dep(r1.val, r2.val, "Blocks")
           IN  IF dep \in Elems(s.deps)
               THEN [store |-> s, res |-> Err("DuplicateDependency")]
               ELSE [store |-> [s EXCEPT !.deps = Append(s.deps, dep)], res |-> Ok(Unit)]

\* remove_dep removing only the Blocks edge on the pair.
remove_dep_blocks_only(s, from, to) ==
  LET r1 == resolve_id(s, from)
      r2 == resolve_id(s, to)
  IN  IF ~r1.ok THEN [store |-> s, res |-> r1]
      ELSE IF ~r2.ok THEN [store |-> s, res |-> r2]
      ELSE LET keep(d) == ~(d.from_id = r1.val /\ d.to_id = r2.val /\ d.dep_type = "Blocks")
               after == retain(s.deps, keep)
           IN  IF Len(after) = Len(s.deps)
               THEN [store |-> [s EXCEPT !.deps = after], res |-> Err("NotFound")]
               ELSE [store |-> [s EXCEPT !.deps = after], res |-> Ok(Unit)]

remove_dep(s, from, to) ==
  LET r1 == resolve_id(s, from)
      r2 == resolve_id(s, to)
  IN  IF ~r1.ok THEN [store |-> s, res |-> r1]
      ELSE IF ~r2.ok THEN [store |-> s, res |-> r2]
      ELSE LET keep(d) == ~(d.from_id = r1.val /\ d.to_id = r2.val)
               after == retain(s.deps, keep)
           IN  IF Len(after) = Len(s.deps)
               THEN [store |-> [s EXCEPT !.deps = after], res |-> Err("NotFound")]
               ELSE [store |-> [s EXCEPT !.deps = after], res |-> Ok(Unit)]

\* The ancestor walk of set_parent looking at the parent's own parent only.
walk_ancestors_direct(s, cur, child, fuel) ==
  IF get_parent(s, cur) = <<child>> THEN "cycle" ELSE "clear"

\* The ancestor walk of set_parent: "cycle" when child is met above cur, "clear"
\* when the chain ends, and "hang" when the loop would never leave (the code
\* keeps no visited set, so a chain that closes on itself without passing
\* through child is walked for ever; fuel counts the items still unvisited).
RECURSIVE walk_ancestors(_, _, _, _)
walk_ancestors(s, cur, child, fuel) ==
  LET p == get_parent(s, cur)
  IN  IF p = <<>> THEN "clear"
      ELSE IF p[1] = child THEN "cycle"
      ELSE IF fuel = 0 THEN "hang"
      ELSE walk_ancestors(s, p[1], child, fuel - 1)

\* set_parent adding the new edge beside the one the child already has.
set_parent_add(s, child, parent) ==
  LET r1 == resolve_id(s, child)
      r2 == resolve_id(s, parent)
  IN  IF ~r1.ok THEN [store |-> s, res |-> r1]
      ELSE IF ~r2.ok THEN [store |-> s, res |-> r2]
      ELSE IF r1.val = r2.val THEN [store |-> s, res |-> Err("SelfReference")]
      ELSE LET w == walk_ancestors(s, r2.val, r1.val, Len(s.deps) + 1)
           IN  IF w = "cycle" THEN [store |-> s, res |-> Err("CycleDetected")]
               ELSE IF w = "hang" THEN [store |-> s, res |-> Err("Hang")]
               ELSE [store |-> [s EXCEPT !.deps = Append(s.deps, Dep(r1.val, r2.val, "Parent"))],
                     res |-> Ok(Unit)]

\* set_parent without the ancestor walk.
set_parent_no_walk(s, child, parent) ==
  LET r1 == resolve_id(s, child)
      r2 == resolve_id(s, parent)
      keep(d) == ~(d.from_id = r1.val /\ d.dep_type = "Parent")
  IN  IF ~r1.ok THEN [store |-> s, res |-> r1]
      ELSE IF ~r2.ok THEN [store |-> s, res |-> r2]
      ELSE IF r1.val = r2.val THEN [store |-> s, res |-> Err("SelfReference")]
      ELSE [store |-> [s EXCEPT !.deps =
                         Append(retain(s.deps, keep), Dep(r1.val, r2.val, "Parent"))],
            res |-> Ok(Unit)]

set_parent(s, child, parent) ==
  LET r1 == resolve_id(s, child)
      r2 == resolve_id(s, parent)
  IN  IF ~r1.ok THEN [store |-> s, res |-> r1]
      ELSE IF ~r2.ok THEN [store |-> s, res |-> r2]
      ELSE IF r1.val = r2.val THEN [store |-> s, res |-> Err("SelfReference")]
      ELSE LET w == walk_ancestors(s, r2.val, r1.val, Len(s.deps) + 1)
               keep(d) == ~(d.from_id = r1.val /\ d.dep_type = "Parent")
           IN  IF w = "cycle" THEN [store |-> s, res |-> Err("CycleDetected")]
               ELSE IF w = "hang" THEN [store |-> s, res |-> Err("Hang")]
               ELSE [store |-> [s EXCEPT !.deps =
                                  Append(retain(s.deps, keep), Dep(r1.val, r2.val, "Parent"))],
                     res |-> Ok(Unit)]

\* Ord for String, on ids and prefixes as sequences of characters.
RECURSIVE str_lt(_, _)
str_lt(a, b) ==
  IF b = <<>> THEN FALSE
  ELSE IF a = <<>> THEN TRUE
  ELSE IF a[1] # b[1] THEN a[1] < b[1]
  ELSE str_lt(Tail(a), Tail(b))

\* BTreeMap::values(): the items in ascending order of their keys.
RECURSIVE values_of(_, _)
values_of(items, ks) ==
  IF ks = {} THEN <<>>
  ELSE LET least == CHOOSE k \in ks : \A j \in ks : j = k \/ str_lt(k, j)
       IN  <<items[least]>> \o values_of(items, ks \ {least})

values(s) == values_of(s.items, Keys(s))

\* Place item x in a Vec sorted by priority, after the items that do not
\* compare greater: the order a stable sort gives.
RECURSIVE insert_sorted(_, _)
insert_sorted(sorted, x) ==
  IF sorted = <<>> THEN <<x>>
  ELSE IF sorted[Len(sorted)].priority <= x.priority THEN Append(sorted, x)
  ELSE Append(insert_sorted(SubSeq(sorted, 1, Len(sorted) - 1), x), sorted[Len(sorted)])

\* Vec::sort_by_key(|i| i.priority), a stable sort.
RECURSIVE sort_by_key(_)
sort_by_key(seq) ==
  IF seq = <<>> THEN <<>>
  ELSE insert_sorted(sort_by_key(SubSeq(seq, 1, Len(seq) - 1)), seq[Len(seq)])

\* The three filters of ready_items.
is_ready(s, item) ==
  /\ item.status = "Open"
  /\ item.claimed_by = None
  /\ \A bid \in get_blockers(s, item.id) :
       contains_key(s, bid) /\ s.items[bid].status = "Closed"

\* ready_items without the filter on claimed_by.
ready_items_keep_claimed(s) ==
  LET keep(item) == /\ item.status = "Open"
                    /\ \A bid \in get_blockers(s, item.id) :
                         contains_key(s, bid) /\ s.items[bid].status = "Closed"
  IN  sort_by_key(SelectSeq(values(s), keep))

\* ready_items with the items of equal priority in descending key order.
ready_items_ties_reversed(s) ==
  LET keep(item) == is_ready(s, item)
      picked == SelectSeq(values(s), keep)
  IN  sort_by_key([i \in 1..Len(picked) |-> picked[Len(picked) + 1 - i]])

ready_items(s) ==
  LET keep(item) == is_ready(s, item)
  IN  sort_by_key(SelectSeq(values(s), keep))

\* close_item(store, id, now): refuses an item that has a child whose status
\* is not Closed; otherwise closes the item, clears its claimant and stamps it.
close_item(s, id, t) ==
  IF ~contains_key(s, id) THEN [store |-> s, res |-> Err("NotFound")]
  ELSE IF \E c \in get_children(s, id) : contains_key(s, c) /\ s.items[c].status # "Closed"
  THEN [store |-> s, res |-> Err("HasOpenChildren")]
  ELSE [store |-> [s EXCEPT !.items[id].status = "Closed",
                            !.items[id].claimed_by = None,
                            !.items[id].updated_at = t],
        res |-> Ok(Unit)]

(***************************************************************************)
(* Merge engine (store.rs).                                                *)
(***************************************************************************)
\* merge_items with theirs winning every field that theirs changed.
merge_items_theirs_first(b, o, t) ==
  Item(o.id,
       IF t.title # b.title THEN t.title ELSE o.title,
       IF t.description # b.description THEN t.description ELSE o.description,
       IF t.item_type # b.item_type THEN t.item_type ELSE o.item_type,
       IF t.status # b.status THEN t.status ELSE o.status,
       IF t.priority # b.priority THEN t.priority ELSE o.priority,
       IF t.claimed_by # b.claimed_by THEN t.claimed_by ELSE o.claimed_by,
       o.created_at,
       IF o.updated_at >= t.updated_at THEN o.updated_at ELSE t.updated_at)

\* merge_items with ours winning claimed_by like any other field.
merge_items_ours_claim(b, o, t) ==
  Item(o.id,
       IF o.title # b.title THEN o.title ELSE t.title,
       IF o.description # b.description THEN o.description ELSE t.description,
       IF o.item_type # b.item_type THEN o.item_type ELSE t.item_type,
       IF o.status # b.status THEN o.status ELSE t.status,
       IF o.priority # b.priority THEN o.priority ELSE t.priority,
       IF o.claimed_by # b.claimed_by THEN o.claimed_by ELSE t.claimed_by,
       o.created_at,
       IF o.updated_at >= t.updated_at THEN o.updated_at ELSE t.updated_at)

merge_items(b, o, t) ==
  Item(o.id,
       IF o.title # b.title THEN o.title ELSE t.title,
       IF o.description # b.description THEN o.description ELSE t.description,
       IF o.item_type # b.item_type THEN o.item_type ELSE t.item_type,
       IF o.status # b.status THEN o.status ELSE t.status,
       IF o.priority # b.priority THEN o.priority ELSE t.priority,
       IF t.claimed_by # b.claimed_by THEN t.claimed_by ELSE o.claimed_by,
       o.created_at,
       IF o.updated_at >= t.updated_at THEN o.updated_at ELSE t.updated_at)

\* The ids the match of merge_stores inserts into merged.items.
merged_ids(b, o, t) ==
  {id \in Keys(b) \cup Keys(o) \cup Keys(t) :
     \/ id \notin Keys(b) /\ id \in Keys(o) /\ id \notin Keys(t)
     \/ id \notin Keys(b) /\ id \notin Keys(o) /\ id \in Keys(t)
     \/ id \notin Keys(b) /\ id \in Keys(o) /\ id \in Keys(t)
     \/ id \in Keys(b) /\ id \in Keys(o) /\ id \in Keys(t)}

\* merged_items keeping ours when both sides added the id.
merged_items_ours_first(b, o, t) ==
  [id \in merged_ids(b, o, t) |->
     IF id \notin Keys(b)
     THEN (IF id \in Keys(o) THEN o.items[id] ELSE t.items[id])
     ELSE merge_items(b.items[id], o.items[id], t.items[id])]

\* The item loop of merge_stores.
merged_items(b, o, t) ==
  [id \in merged_ids(b, o, t) |->
     IF id \notin Keys(b)
     THEN (IF id \in Keys(t) THEN t.items[id] ELSE o.items[id])
     ELSE merge_items(b.items[id], o.items[id], t.items[id])]

\* merged_dep_set keeping only the edges that are new relative to base.
merged_dep_set_added_only(b, o, t, items) ==
  LET alive(d) == d.from_id \in DOMAIN items /\ d.to_id \in DOMAIN items
  IN  {d \in Elems(o.deps) \cup Elems(t.deps) : d \notin Elems(b.deps) /\ alive(d)}

\* merged_dep_set without the contains_key tests on the endpoints.
merged_dep_set_no_alive(b, o, t, items) ==
  LET base_deps == Elems(b.deps)
      our_deps == Elems(o.deps)
      their_deps == Elems(t.deps)
  IN  {d \in our_deps : d \notin base_deps \/ d \in their_deps}
        \cup
      {d \in their_deps : d \notin base_deps \/ d \in our_deps}

\* merged_dep_set as the plain union of both sides' edges.
merged_dep_set_union(b, o, t, items) ==
  LET alive(d) == d.from_id \in DOMAIN items /\ d.to_id \in DOMAIN items
  IN  {d \in Elems(o.deps) \cup Elems(t.deps) : alive(d)}

\* The two dep loops of merge_stores: the HashSet merged_deps.
merged_dep_set(b, o, t, items) ==
  LET base_deps == Elems(b.deps)
      our_deps == Elems(o.deps)
      their_deps == Elems(t.deps)
      alive(d) == d.from_id \in DOMAIN items /\ d.to_id \in DOMAIN items
  IN  {d \in our_deps : (d \notin base_deps \/ d \in their_deps) /\ alive(d)}
        \cup
      {d \in their_deps : (d \notin base_deps \/ d \in our_deps) /\ alive(d)}

\* (&a.from_id, &a.to_id).cmp(&(&b.from_id, &b.to_id)) is not Greater.
dep_key_le(a, b) ==
  \/ str_lt(a.from_id, b.from_id)
  \/ a.from_id = b.from_id /\ ~str_lt(b.to_id, a.to_id)

\* merged_deps.into_iter().collect() followed by the stable sort_by on
\* (from_id, to_id): the HashSet yields its elements in any order, so two edges
\* of different kinds on the same pair may end in either order.
RECURSIVE sorted_orders(_)
sorted_orders(S) ==
  IF S = {} THEN {<<>>}
  ELSE LET mins == {d \in S : \A e \in S : dep_key_le(d, e)}
       IN  UNION {{<<d>> \o rest : rest \in sorted_orders(S \ {d})} : d \in mins}

\* Every Store merge_stores(base, ours, theirs) can return.
merge_stores(b, o, t) ==
  LET items == merged_items(b, o, t)
  IN  {[items |-> items, deps |-> deps] :
         deps \in sorted_orders(merged_dep_set(b, o, t, items))}

(***************************************************************************)
(* Spec: the graph engine acting on one in-memory Store, starting from the *)
(* empty Store. Every call, failing or not, leaves its Store in `store`    *)
(* and its return value in `result`.                                       *)
(***************************************************************************)
\* Values the commands pass for the fields the graph engine does not read.
DefaultTitle == "t"
DefaultPriority == 2

ParentArgs == {<<>>} \cup {<<p>> : p \in Prefixes}

idleMerge ==
  /\ base = EmptyStore /\ ours = EmptyStore /\ theirs = EmptyStore
  /\ merged = EmptyStore /\ phase = [step |-> "idle", n |-> 0]

idleSync ==
  /\ commits = <<>> /\ remoteHead = 0 /\ localHead = <<>> /\ tracking = <<>>
  /\ pc = <<>> /\ mem = <<>> /\ outcome = <<>> /\ cmd = <<>> /\ edits = 0
  /\ has_remote = FALSE

\* No call made yet.
NoCall == [op |-> "none", args |-> <<>>]

idleGraph == store = EmptyStore /\ result = Ok(Unit) /\ pre = EmptyStore /\ call = NoCall

Init == idleGraph /\ now = 0 /\ idleMerge /\ idleSync

Apply(r) ==
  /\ store' = r.store
  /\ result' = r.res
  /\ now' = now + 1
  /\ UNCHANGED <<pre, call, mergeVars, syncVars>>

Create ==
  /\ now < MaxOps
  /\ Cardinality(Keys(store)) < MaxItems
  /\ \E id \in generate_id(Keys(store)), parent_id \in ParentArgs :
       Apply(create_item(store, DefaultTitle, "Task", DefaultPriority, None, parent_id, id, now + 1))

Delete ==
  /\ now < MaxOps
  /\ \E p \in Prefixes : Apply(delete_item(store, p))

SetParent ==
  /\ now < MaxOps
  /\ \E c \in Prefixes, p \in Prefixes : Apply(set_parent(store, c, p))

AddBlocking ==
  /\ now < MaxOps
  /\ \E a \in Prefixes, b \in Prefixes : Apply(add_blocking_dep(store, a, b))

RemoveDep ==
  /\ now < MaxOps
  /\ \E a \in Prefixes, b \in Prefixes : Apply(remove_dep(store, a, b))

Next == Create \/ Delete \/ SetParent \/ AddBlocking \/ RemoveDep

Spec == Init /\ [][Next]_vars

(***************************************************************************)
(* SpecReplica: two actors' persisted documents. The commands of main.rs   *)
(* load a document, run one graph engine call and save it only when the    *)
(* call returned Ok. While phase.step = "base" the two actors hold the     *)
(* same document and a command edits it for both; a command on "ours" or   *)
(* "theirs" makes the two diverge from `base`, the local edits of a round  *)
(* being taken before the remote ones (they are independent). Merge is     *)
(* what sync does with the two documents, and Adopt is both actors         *)
(* continuing from the published merge result. A command that succeeds on *)
(* a prefix does what it does on the id the prefix resolves to, and a      *)
(* failing command saves nothing, so the commands are given full ids here. *)
(***************************************************************************)
IdParentArgs == {<<>>} \cup {<<p>> : p \in IDS}

Sides == {"base", "ours", "theirs"}

Doc(side) == IF side = "ours" THEN ours ELSE IF side = "theirs" THEN theirs ELSE base

Round(step, n) == [step |-> step, n |-> n]

InitReplica ==
  /\ base = EmptyStore /\ ours = EmptyStore /\ theirs = EmptyStore
  /\ merged = EmptyStore /\ phase = Round("base", 0)
  /\ now = 0 /\ idleGraph /\ idleSync

\* load(); <call>?; save(): the document is replaced only by a successful call.
Save(side, r) ==
  /\ now < MaxReplicaOps
  /\ \/ side = "base" /\ phase.step = "base"
     \/ side = "ours" /\ phase.step \in {"base", "ours"}
     \/ side = "theirs" /\ phase.step \in {"base", "ours", "theirs"}
  /\ side # "base" /\ phase.step = side => phase.n < MaxSideOps
  /\ r.res.ok
  /\ base' = IF side = "base" THEN r.store ELSE base
  /\ ours' = IF side \in {"base", "ours"} THEN r.store ELSE ours
  /\ theirs' = IF side \in {"base", "theirs"} THEN r.store ELSE theirs
  /\ phase' = Round(side, IF side # "base" /\ phase.step = side THEN phase.n + 1 ELSE 1)
  /\ now' = now + 1
  /\ UNCHANGED <<merged, graphVars, syncVars>>

CmdCreate(side) ==
  /\ Cardinality(Keys(Doc(side))) < MaxItems
  /\ \E id \in generate_id(Keys(Doc(side))), parent_id \in IdParentArgs :
       Save(side, create_item(Doc(side), DefaultTitle, "Task", DefaultPriority, None,
                              parent_id, id, now + 1))

CmdDelete(side) == \E p \in IDS : Save(side, delete_item(Doc(side), p))

CmdSetParent(side) ==
  \E c \in IDS, p \in IDS : Save(side, set_parent(Doc(side), c, p))

CmdDepAdd(side) ==
  \E a \in IDS, b \in IDS : Save(side, add_blocking_dep(Doc(side), a, b))

CmdDepRm(side) ==
  \E a \in IDS, b \in IDS : Save(side, remove_dep(Doc(side), a, b))

Merge ==
  /\ phase.step \in {"ours", "theirs"}
  /\ \E m \in merge_stores(base, ours, theirs) : merged' = m
  /\ phase' = Round("merged", 0)
  /\ UNCHANGED <<base, ours, theirs, now, graphVars, syncVars>>

Adopt ==
  /\ phase.step = "merged"
  /\ base' = merged /\ ours' = merged /\ theirs' = merged
  /\ phase' = Round("base", 0)
  /\ UNCHANGED <<merged, now, graphVars, syncVars>>

NextReplica ==
  \/ \E side \in Sides : CmdCreate(side)
  \/ \E side \in Sides : CmdDelete(side)
  \/ \E side \in Sides : CmdSetParent(side)
  \/ \E side \in Sides : CmdDepAdd(side)
  \/ \E side \in Sides : CmdDepRm(side)
  \/ Merge
  \/ Adopt

SpecReplica == InitReplica /\ [][NextReplica]_vars

(***************************************************************************)
(* SpecMerge: merge_stores as a function. Init draws base, ours and theirs *)
(* from bounded families of documents and MergeInputs applies the merge.   *)
(***************************************************************************)
X == <<1, 1>>
Y == <<1, 2>>
Z == <<2, 1>>

\* (base, ours, theirs) values of one field: unchanged, changed by one side,
\* changed by both to the same value, changed by both to different values.
Cases3(v0, v1, v2) ==
  {<<v0, v0, v0>>, <<v0, v1, v0>>, <<v0, v0, v1>>, <<v0, v1, v1>>, <<v0, v1, v2>>}

OneItem(item) == [items |-> [k \in {item.id} |-> item], deps |-> <<>>]

Claimants == {None, "alice", "bob"}

\* Item X in all three documents, its content fields varying.
FieldInputs ==
  \E ti \in Cases3("t", "o", "r"), de \in Cases3(None, "d", "e"),
     ty \in Cases3("Task", "Epic", "Feature"), st \in Status \X Status \X Status,
     pr \in Cases3(2, 0, 1) :
       /\ base = OneItem(Item(X, ti[1], de[1], ty[1], st[1], pr[1], None, 0, 1))
       /\ ours = OneItem(Item(X, ti[2], de[2], ty[2], st[2], pr[2], None, 0, 1))
       /\ theirs = OneItem(Item(X, ti[3], de[3], ty[3], st[3], pr[3], None, 0, 1))

\* Item X in all three documents, its claimant, updated_at and title varying.
ClaimInputs ==
  \E ti \in Cases3("t", "o", "r"), cl \in Claimants \X Claimants \X Claimants,
     up \in {1, 2, 3} \X {1, 2, 3} :
       /\ base = OneItem(Item(X, ti[1], None, "Task", "Open", 2, cl[1], 0, 1))
       /\ ours = OneItem(Item(X, ti[2], None, "Task", "Open", 2, cl[2], 0, up[1]))
       /\ theirs = OneItem(Item(X, ti[3], None, "Task", "Open", 2, cl[3], 0, up[2]))

\* A document holding item X in version vx and item Y in version vy ("-" for
\* absent; the version is the item's title).
Versions(vx, vy) ==
  LET v == [k \in {X, Y} |-> IF k = X THEN vx ELSE vy]
  IN  [items |-> [k \in {id \in {X, Y} : v[id] # "-"} |->
                    Item(k, v[k], None, "Task", "Open", 2, None, 0, 1)],
       deps |-> <<>>]

\* Items X and Y present or absent in each document, in the same or in
\* different versions.
PresenceInputs ==
  \E bx \in {"-", "t"}, ox \in {"-", "t", "o"}, tx \in {"-", "t", "r"},
     by \in {"-", "t"}, oy \in {"-", "t", "o"}, ty \in {"-", "t", "r"} :
       /\ base = Versions(bx, by)
       /\ ours = Versions(ox, oy)
       /\ theirs = Versions(tx, ty)

\* The edges the dep inputs are made of: two kinds on one pair, the reverse
\* pair, and an edge to an item that may be missing.
DepUniverse ==
  {Dep(X, Y, "Parent"), Dep(X, Y, "Blocks"), Dep(Y, X, "Blocks"), Dep(Z, X, "Blocks")}

\* A document with items X and Y, item Z when withZ, and the edges of D whose
\* endpoints it holds.
DepDoc(withZ, D) ==
  LET ids == IF withZ THEN {X, Y, Z} ELSE {X, Y}
      held == {d \in D : d.from_id \in ids /\ d.to_id \in ids}
  IN  [items |-> [k \in ids |-> Item(k, "t", None, "Task", "Open", 2, None, 0, 1)],
       deps |-> CHOOSE seq \in sorted_orders(held) : TRUE]

DepInputs ==
  \E zb \in BOOLEAN, zo \in BOOLEAN, zt \in BOOLEAN,
     Db \in SUBSET DepUniverse, Do \in SUBSET DepUniverse, Dt \in SUBSET DepUniverse :
       /\ base = DepDoc(zb, Db)
       /\ ours = DepDoc(zo, Do)
       /\ theirs = DepDoc(zt, Dt)

InitMerge ==
  /\ FieldInputs \/ ClaimInputs \/ PresenceInputs \/ DepInputs
  /\ merged = EmptyStore /\ phase = Round("input", 0)
  /\ now = 0 /\ idleGraph /\ idleSync

MergeInputs ==
  /\ phase.step = "input"
  /\ \E m \in merge_stores(base, ours, theirs) : merged' = m
  /\ phase' = Round("merged", 0)
  /\ UNCHANGED <<base, ours, theirs, now, graphVars, syncVars>>

NextMerge == MergeInputs

SpecMerge == InitMerge /\ [][NextMerge]_vars

(***************************************************************************)
(* Transport (git.rs). Commit k of the repository is commits[k]: its       *)
(* parents and the Store its store.json holds. Every actor has its own     *)
(* refs/heads/litebrite (localHead) and refs/remotes/origin/litebrite      *)
(* (tracking); origin has one refs/heads/litebrite (remoteHead).           *)
(***************************************************************************)
Commit(parents, s) == [parents |-> parents, store |-> s]

\* The commits reachable from c, c included.
RECURSIVE Anc(_, _)
Anc(cs, c) == {c} \cup UNION {Anc(cs, p) : p \in cs[c].parents}

\* git merge-base --is-ancestor x y
is_ancestor(cs, x, y) == x \in Anc(cs, y)

\* fast_forward never moving the local ref.
fast_forward_never(cs, local, remote) == local

\* fast_forward moving the local ref to the remote ref whatever their relation.
fast_forward_always(cs, local, remote) == remote

\* fast_forward: the new refs/heads/litebrite, given the two refs.
fast_forward(cs, local, remote) ==
  IF local = remote THEN local
  ELSE IF is_ancestor(cs, local, remote) THEN remote
  ELSE local

\* merge-base finding no common ancestor.
merge_base_none(cs, local, remote) == {}

\* git merge-base local remote: the best common ancestors, of which git
\* prints one; the empty set when the histories share nothing.
merge_base(cs, local, remote) ==
  LET common == Anc(cs, local) \cap Anc(cs, remote)
  IN  {c \in common : \A d \in common : c \in Anc(cs, d) => d = c}

\* The Store read at the merge base (Store::default() when there is none).
base_stores(cs, local, remote) ==
  IF merge_base(cs, local, remote) = {} THEN {EmptyStore}
  ELSE {cs[c].store : c \in merge_base(cs, local, remote)}

\* push rejecting every update of the remote ref.
push_accepted_never(cs, remote, local) == FALSE

\* push accepting any update of the remote ref.
push_accepted_always(cs, remote, local) == TRUE

\* git push origin litebrite: accepted when it fast-forwards the remote ref.
push_accepted(cs, remote, local) == is_ancestor(cs, remote, local)

(***************************************************************************)
(* SpecSync: the commands of main.rs that talk to the remote, run by       *)
(* several actors. A command is cut at its fetch and push calls, the only  *)
(* places where it meets the other actors. Every actor may claim item X    *)
(* (once), update item Y, and sync.                                        *)
(***************************************************************************)
Actors == {"alice", "bob", "carol"}

\* The document at the first commit: X and Y, Open and unclaimed.
FirstStore ==
  [items |-> [k \in {X, Y} |-> Item(k, "t", None, "Task", "Open", 2, None, 0, 0)],
   deps |-> <<>>]

\* The record of a command: the heads it started from (local0, and remote0 as
\* fetched), the local head after its fast-forward step (synced), the remote
\* head fetched by its retry (remote1), the commits it made, how many pushes
\* and merges it ran, the commit it published (0 for none), how it ended
\* ("running" until then), and the claimant its error message names.
NoCmd ==
  [name |-> "none", local0 |-> 0, remote0 |-> 0, synced |-> 0, remote1 |-> 0,
   made |-> <<>>, pushes |-> 0, merges |-> 0, published |-> 0, status |-> "none",
   who |-> None]

InitSync ==
  /\ commits = <<Commit({}, FirstStore)>>
  /\ remoteHead = 1
  /\ localHead = [a \in Actors |-> 1]
  /\ tracking = [a \in Actors |-> 1]
  /\ pc = [a \in Actors |-> "idle"]
  /\ mem = [a \in Actors |-> EmptyStore]
  /\ outcome = [a \in Actors |-> "none"]
  /\ cmd = [a \in Actors |-> NoCmd]
  /\ has_remote = TRUE
  /\ edits = 0
  /\ now = 0 /\ idleGraph /\ idleMerge

\* The retry of Cmd::Claim never finding a claimant on the remote copy.
remote_item_claimed_never(remote_store, id) == FALSE

\* The retry of Cmd::Claim taking every rejected push for a lost claim.
remote_item_claimed_always(remote_store, id) == TRUE

\* The retry of Cmd::Claim: the remote copy of the item has a claimant.
remote_item_claimed(remote_store, id) ==
  id \in Keys(remote_store) /\ remote_store.items[id].claimed_by # None

\* The claimant of item id in s, None when the item is not there.
claimant_of(s, id) == IF id \in Keys(s) THEN s.items[id].claimed_by ELSE None

\* The checks of Cmd::Claim without the test for a Closed item.
claim_check_no_closed(s, id) ==
  LET r == resolve_id(s, id)
  IN  IF ~r.ok THEN r
      ELSE IF s.items[r.val].claimed_by # None THEN Err("AlreadyClaimed")
      ELSE r

\* The checks of Cmd::Claim on the loaded Store: the resolved id, or the error.
claim_check(s, id) ==
  LET r == resolve_id(s, id)
  IN  IF ~r.ok THEN r
      ELSE IF s.items[r.val].status = "Closed" THEN Err("Closed")
      ELSE IF s.items[r.val].claimed_by # None THEN Err("AlreadyClaimed")
      ELSE r

\* A command returns: Ok or the error it surfaces.
Return(a, how) ==
  /\ pc' = [pc EXCEPT ![a] = "idle"]
  /\ outcome' = [outcome EXCEPT ![a] = how]

\* write_store / create_merge_commit: a new commit becomes a's local head.
CommitLocal(a, parents, s) ==
  /\ commits' = Append(commits, Commit(parents, s))
  /\ localHead' = [localHead EXCEPT ![a] = Len(commits) + 1]

\* sync_from_remote: with a remote, fetch and fast_forward; without one,
\* nothing. The tracking ref and the local ref after it.
sync_from_remote(a) ==
  IF has_remote
  THEN [tracking |-> remoteHead,
        local |-> fast_forward(commits, localHead[a], remoteHead)]
  ELSE [tracking |-> tracking[a], local |-> localHead[a]]

\* `if has_remote { push ... }` taken as if a remote were always there.
after_save_pushes(first) == [pc |-> first, status |-> "running"]

\* `if has_remote { push ... }` after save: with a remote the command goes on
\* to its first push, without one it is done.
after_save(first) ==
  IF has_remote THEN [pc |-> first, status |-> "running"]
  ELSE [pc |-> "idle", status |-> "Ok"]

\* Cmd::Claim up to its first push: sync_from_remote, load, the checks, and
\* save of the claim; without a remote the command ends there.
ClaimBegin(a) ==
  /\ pc[a] = "idle" /\ outcome[a] = "none"
  /\ Len(commits) + 2 <= MaxCommits
  /\ tracking' = [tracking EXCEPT ![a] = sync_from_remote(a).tracking]
  /\ LET local == sync_from_remote(a).local
         s == commits[local].store
         r == claim_check(s, X)
         began == [NoCmd EXCEPT !.name = "claim", !.local0 = localHead[a],
                                !.remote0 = sync_from_remote(a).tracking,
                                !.synced = local]
     IN  IF ~r.ok
         THEN /\ Return(a, r.err)
              /\ localHead' = [localHead EXCEPT ![a] = local]
              /\ cmd' = [cmd EXCEPT ![a] = [began EXCEPT !.status = r.err,
                                                         !.who = claimant_of(s, X)]]
              /\ UNCHANGED <<commits, mem, now>>
         ELSE LET s1 == [s EXCEPT !.items[r.val].claimed_by = a,
                                  !.items[r.val].updated_at = now + 1]
              IN  /\ CommitLocal(a, {local}, s1)
                  /\ mem' = [mem EXCEPT ![a] = s1]
                  /\ now' = now + 1
                  /\ cmd' = [cmd EXCEPT ![a] =
                               [began EXCEPT !.made = <<Len(commits) + 1>>,
                                             !.status = after_save("claim_push").status]]
                  /\ pc' = [pc EXCEPT ![a] = after_save("claim_push").pc]
                  /\ outcome' = IF after_save("claim_push").pc = "idle"
                                THEN [outcome EXCEPT ![a] = "Ok"] ELSE outcome
  /\ UNCHANGED <<has_remote, remoteHead, edits, graphVars, mergeVars>>

\* git::push() of a command at position `at`: on success the remote ref and
\* the tracking ref move to the local head. A rejected first push of claim or
\* unclaim leaves the command running; any other rejected push ends it.
push(a, at, rejected) ==
  /\ pc[a] = at
  /\ IF push_accepted(commits, remoteHead, localHead[a])
     THEN /\ remoteHead' = localHead[a]
          /\ tracking' = [tracking EXCEPT ![a] = localHead[a]]
          /\ Return(a, IF at \in {"claim_push", "claim_push2"} THEN "Ok" ELSE outcome[a])
          /\ cmd' = [cmd EXCEPT ![a].pushes = @ + 1, ![a].published = localHead[a],
                                ![a].status = "Ok"]
     ELSE /\ rejected
          /\ cmd' = [cmd EXCEPT ![a].pushes = @ + 1,
                                ![a].status = IF at \in {"claim_push", "unclaim_push"}
                                              THEN "running" ELSE "PushFailed"]
          /\ UNCHANGED <<remoteHead, tracking>>
  /\ UNCHANGED <<has_remote, commits, localHead, mem, edits, now, graphVars>>

\* A push as a step of its own.
Push(a, at, rejected) == push(a, at, rejected) /\ UNCHANGED mergeVars

\* The first push of Cmd::Claim.
ClaimPush(a) ==
  Push(a, "claim_push", pc' = [pc EXCEPT ![a] = "claim_retry"] /\ UNCHANGED outcome)

\* Cmd::Claim after a rejected push: fetch, look at the remote copy of the
\* item, and either give up or merge and commit the merge.
ClaimRetry(a) ==
  /\ pc[a] = "claim_retry"
  /\ tracking' = [tracking EXCEPT ![a] = remoteHead]
  /\ LET remote_store == commits[remoteHead].store
     IN  IF remote_item_claimed(remote_store, X)
         THEN /\ Return(a, "AlreadyClaimed")
              /\ cmd' = [cmd EXCEPT ![a].remote1 = remoteHead,
                                    ![a].status = "AlreadyClaimed",
                                    ![a].who = claimant_of(remote_store, X)]
              /\ UNCHANGED <<commits, localHead>>
         ELSE /\ \E base_store \in base_stores(commits, localHead[a], remoteHead) :
                   \E m \in merge_stores(base_store, mem[a], remote_store) :
                     CommitLocal(a, {localHead[a], remoteHead}, m)
              /\ pc' = [pc EXCEPT ![a] = "claim_push2"]
              /\ cmd' = [cmd EXCEPT ![a].remote1 = remoteHead, ![a].merges = @ + 1,
                                    ![a].made = Append(@, Len(commits) + 1)]
              /\ UNCHANGED outcome
  /\ UNCHANGED <<has_remote, remoteHead, mem, edits, now, graphVars, mergeVars>>

\* The push after the merge of Cmd::Claim.
ClaimPush2(a) == Push(a, "claim_push2", Return(a, "PushFailed"))

\* Cmd::Update of item Y with --title: load, change, save.
UpdateY(a) ==
  /\ pc[a] = "idle"
  /\ edits < MaxEdits
  /\ Len(commits) + 1 <= MaxCommits
  /\ LET s == commits[localHead[a]].store
         r == resolve_id(s, Y)
     IN  /\ r.ok
         /\ CommitLocal(a, {localHead[a]},
                        [s EXCEPT !.items[r.val].title = "edited",
                                  !.items[r.val].updated_at = now + 1])
  /\ cmd' = [cmd EXCEPT ![a] = [NoCmd EXCEPT !.name = "update", !.local0 = localHead[a],
                                             !.made = <<Len(commits) + 1>>,
                                             !.status = "Ok"]]
  /\ now' = now + 1
  /\ edits' = edits + 1
  /\ UNCHANGED <<has_remote, remoteHead, tracking, pc, mem, outcome, graphVars, mergeVars>>

\* Cmd::Sync up to its push: the has_remote test, fetch, the in-sync test,
\* fast_forward, and for an ahead or diverged local head the merge and its
\* commit.
sync_begin(a) ==
  /\ pc[a] = "idle"
  /\ Len(commits) + 1 <= MaxCommits
  /\ tracking' = [tracking EXCEPT ![a] = IF has_remote THEN remoteHead ELSE @]
  /\ LET local_ref == localHead[a]
         remote_ref == remoteHead
         new_local_ref == fast_forward(commits, local_ref, remote_ref)
         began == [NoCmd EXCEPT !.name = "sync", !.local0 = local_ref,
                                !.remote0 = remote_ref, !.synced = new_local_ref]
     IN  IF ~has_remote
         THEN /\ cmd' = [cmd EXCEPT ![a] = [NoCmd EXCEPT !.name = "sync",
                                                         !.local0 = local_ref,
                                                         !.synced = local_ref,
                                                         !.status = "NoRemote"]]
              /\ UNCHANGED <<commits, localHead, pc>>
         ELSE IF local_ref = remote_ref
         THEN /\ cmd' = [cmd EXCEPT ![a] = [began EXCEPT !.status = "Ok"]]
              /\ UNCHANGED <<commits, localHead, pc>>
         ELSE IF new_local_ref = remote_ref
         THEN /\ localHead' = [localHead EXCEPT ![a] = remote_ref]
              /\ cmd' = [cmd EXCEPT ![a] = [began EXCEPT !.status = "Ok"]]
              /\ UNCHANGED <<commits, pc>>
         ELSE /\ \E base_store \in base_stores(commits, local_ref, remote_ref) :
                   \E m \in merge_stores(base_store, commits[local_ref].store,
                                          commits[remote_ref].store) :
                     CommitLocal(a, {local_ref, remote_ref}, m)
              /\ pc' = [pc EXCEPT ![a] = "sync_push"]
              /\ cmd' = [cmd EXCEPT ![a] = [began EXCEPT !.status = "running",
                                                         !.merges = 1,
                                                         !.made = <<Len(commits) + 1>>]]
  /\ UNCHANGED <<has_remote, remoteHead, mem, outcome, edits, now, graphVars>>

\* The start of Cmd::Sync as a step of its own.
SyncBegin(a) == sync_begin(a) /\ UNCHANGED mergeVars

\* The push of Cmd::Sync.
SyncPush(a) == Push(a, "sync_push", pc' = [pc EXCEPT ![a] = "idle"] /\ UNCHANGED outcome)

NextSync ==
  \/ \E a \in Actors : ClaimBegin(a)
  \/ \E a \in Actors : ClaimPush(a)
  \/ \E a \in Actors : ClaimRetry(a)
  \/ \E a \in Actors : ClaimPush2(a)
  \/ \E a \in Actors : UpdateY(a)
  \/ \E a \in Actors : SyncBegin(a)
  \/ \E a \in Actors : SyncPush(a)

SpecSync == InitSync /\ [][NextSync]_vars

\* A claim that has started runs on: Cmd::Claim is straight-line code.
ClaimStep(a) == ClaimPush(a) \/ ClaimRetry(a) \/ ClaimPush2(a)

SpecSyncFair == SpecSync /\ \A a \in Actors : WF_vars(ClaimStep(a))

(***************************************************************************)
(* SpecCmd: claim, unclaim and sync together with commands that close or   *)
(* delete item X, started from a repository where carol's `lb init` lost   *)
(* the race for the remote branch: init_branch made her an orphan root     *)
(* commit holding the empty Store, and its push was rejected.              *)
(***************************************************************************)

InitCmd ==
  /\ commits = <<Commit({}, FirstStore), Commit({}, EmptyStore)>>
  /\ remoteHead = 1
  /\ localHead = [a \in Actors |-> IF a = "carol" THEN 2 ELSE 1]
  /\ tracking = [a \in Actors |-> 1]
  /\ pc = [a \in Actors |-> "idle"]
  /\ mem = [a \in Actors |-> EmptyStore]
  /\ outcome = [a \in Actors |-> "none"]
  /\ cmd = [a \in Actors |-> NoCmd]
  /\ has_remote = TRUE
  /\ edits = 0
  /\ now = 0 /\ idleGraph /\ idleMerge

\* The checks of Cmd::Unclaim without the test for a missing claimant.
unclaim_check_never(s, id) == resolve_id(s, id)

\* The checks of Cmd::Unclaim on the loaded Store: the resolved id, or the error.
unclaim_check(s, id) ==
  LET r == resolve_id(s, id)
  IN  IF ~r.ok THEN r
      ELSE IF s.items[r.val].claimed_by = None THEN Err("NotClaimed")
      ELSE r

\* Cmd::Unclaim up to its first push: sync_from_remote, load, the check, and
\* save of the Store with the claimant cleared; without a remote the command
\* ends there.
UnclaimBegin(a) ==
  /\ pc[a] = "idle"
  /\ Len(commits) + 2 <= MaxCommits
  /\ tracking' = [tracking EXCEPT ![a] = sync_from_remote(a).tracking]
  /\ LET local == sync_from_remote(a).local
         s == commits[local].store
         r == unclaim_check(s, X)
         began == [NoCmd EXCEPT !.name = "unclaim", !.local0 = localHead[a],
                                !.remote0 = sync_from_remote(a).tracking,
                                !.synced = local]
     IN  IF ~r.ok
         THEN /\ localHead' = [localHead EXCEPT ![a] = local]
              /\ cmd' = [cmd EXCEPT ![a] = [began EXCEPT !.status = r.err]]
              /\ UNCHANGED <<commits, mem, now, pc>>
         ELSE LET s1 == [s EXCEPT !.items[r.val].claimed_by = None,
                                  !.items[r.val].updated_at = now + 1]
              IN  /\ CommitLocal(a, {local}, s1)
                  /\ mem' = [mem EXCEPT ![a] = s1]
                  /\ now' = now + 1
                  /\ pc' = [pc EXCEPT ![a] = after_save("unclaim_push").pc]
                  /\ cmd' = [cmd EXCEPT ![a] =
                               [began EXCEPT !.made = <<Len(commits) + 1>>,
                                             !.status = after_save("unclaim_push").status]]
  /\ UNCHANGED <<has_remote, remoteHead, outcome, edits, graphVars, mergeVars>>

\* The first push of Cmd::Unclaim.
UnclaimPush(a) ==
  Push(a, "unclaim_push", pc' = [pc EXCEPT ![a] = "unclaim_retry"] /\ UNCHANGED outcome)

\* Cmd::Unclaim after a rejected push: fetch, merge, commit the merge.
UnclaimRetry(a) ==
  /\ pc[a] = "unclaim_retry"
  /\ tracking' = [tracking EXCEPT ![a] = remoteHead]
  /\ LET remote_store == commits[remoteHead].store
     IN  \E base_store \in base_stores(commits, localHead[a], remoteHead) :
           \E m \in merge_stores(base_store, mem[a], remote_store) :
             CommitLocal(a, {localHead[a], remoteHead}, m)
  /\ pc' = [pc EXCEPT ![a] = "unclaim_push2"]
  /\ cmd' = [cmd EXCEPT ![a].remote1 = remoteHead, ![a].merges = @ + 1,
                        ![a].made = Append(@, Len(commits) + 1)]
  /\ UNCHANGED <<has_remote, remoteHead, mem, outcome, edits, now, graphVars, mergeVars>>

\* The push after the merge of Cmd::Unclaim.
UnclaimPush2(a) ==
  Push(a, "unclaim_push2", pc' = [pc EXCEPT ![a] = "idle"] /\ UNCHANGED outcome)

\* A command that changes the local Store only: load, change, save.
LocalEdit(a, name, s1) ==
  /\ pc[a] = "idle"
  /\ edits < MaxEdits
  /\ Len(commits) + 1 <= MaxCommits
  /\ CommitLocal(a, {localHead[a]}, s1)
  /\ cmd' = [cmd EXCEPT ![a] = [NoCmd EXCEPT !.name = name, !.local0 = localHead[a],
                                             !.made = <<Len(commits) + 1>>,
                                             !.status = "Ok"]]
  /\ now' = now + 1
  /\ edits' = edits + 1
  /\ UNCHANGED <<has_remote, remoteHead, tracking, pc, mem, outcome, graphVars, mergeVars>>

\* Cmd::Update of item X with --status closed.
CloseX(a) ==
  LET s == commits[localHead[a]].store
      r == resolve_id(s, X)
  IN  /\ r.ok
      /\ LocalEdit(a, "update", [s EXCEPT !.items[r.val].status = "Closed",
                                          !.items[r.val].updated_at = now + 1])

\* Cmd::Delete of item X.
DeleteX(a) ==
  LET s == commits[localHead[a]].store
      r == delete_item(s, X)
  IN  /\ r.res.ok
      /\ LocalEdit(a, "delete", r.store)

\* The actors that run commands in SpecCmd: one on each of the two roots.
CmdActors == {"alice", "carol"}

NextCmd ==
  \/ \E a \in CmdActors : ClaimBegin(a)
  \/ \E a \in CmdActors : ClaimPush(a)
  \/ \E a \in CmdActors : ClaimRetry(a)
  \/ \E a \in CmdActors : ClaimPush2(a)
  \/ \E a \in CmdActors : SyncBegin(a)
  \/ \E a \in CmdActors : SyncPush(a)
  \/ \E a \in CmdActors : UnclaimBegin(a)
  \/ \E a \in CmdActors : UnclaimPush(a)
  \/ \E a \in CmdActors : UnclaimRetry(a)
  \/ \E a \in CmdActors : UnclaimPush2(a)
  \/ \E a \in CmdActors : CloseX(a)
  \/ \E a \in CmdActors : DeleteX(a)

SpecCmd == InitCmd /\ [][NextCmd]_vars

(***************************************************************************)
(* SpecLocal: the same commands in repositories that have no origin: every *)
(* actor works on a local branch only.                                     *)
(***************************************************************************)

InitLocal ==
  /\ commits = <<Commit({}, FirstStore)>>
  /\ remoteHead = 0
  /\ localHead = [a \in Actors |-> 1]
  /\ tracking = [a \in Actors |-> 0]
  /\ pc = [a \in Actors |-> "idle"]
  /\ mem = [a \in Actors |-> EmptyStore]
  /\ outcome = [a \in Actors |-> "none"]
  /\ cmd = [a \in Actors |-> NoCmd]
  /\ has_remote = FALSE
  /\ edits = 0
  /\ now = 0 /\ idleGraph /\ idleMerge

NextLocal ==
  \/ \E a \in Actors : ClaimBegin(a)
  \/ \E a \in Actors : UnclaimBegin(a)
  \/ \E a \in Actors : SyncBegin(a)
  \/ \E a \in Actors : CloseX(a)
  \/ \E a \in Actors : DeleteX(a)

SpecLocal == InitLocal /\ [][NextLocal]_vars

(***************************************************************************)
(* SpecSettle: the commands of SpecCmd until the actors stop editing, and  *)
(* then three runs of `lb sync` one after the other: by one actor, by      *)
(* another, and by the first again, each run to its end before the next    *)
(* begins. phase holds the two actors and the number of runs finished.     *)
(***************************************************************************)

\* The actor whose turn it is.
Turn == IF phase.n = 1 THEN phase.second ELSE phase.first

\* The actors stop editing; no command is under way.
Quiesce ==
  /\ phase.step = "idle"
  /\ \A a \in Actors : pc[a] = "idle"
  /\ \E a \in CmdActors, b \in CmdActors :
       a # b /\ phase' = [step |-> "settle", first |-> a, second |-> b, n |-> 0]
  /\ UNCHANGED <<base, ours, theirs, merged, now, graphVars, syncVars>>

\* A step of the sync run whose turn it is; the run is over when the command
\* returns.
SettleStep ==
  /\ phase.step = "settle" /\ phase.n < 3
  /\ \/ sync_begin(Turn)
     \/ push(Turn, "sync_push", pc' = [pc EXCEPT ![Turn] = "idle"] /\ UNCHANGED outcome)
  /\ phase' = IF pc'[Turn] = "idle" THEN [phase EXCEPT !.n = @ + 1] ELSE phase
  /\ UNCHANGED <<base, ours, theirs, merged>>

NextSettle ==
  \/ phase.step = "idle" /\ NextCmd
  \/ Quiesce
  \/ SettleStep

SpecSettle == InitCmd /\ [][NextSettle]_vars

(***************************************************************************)
(* SpecOps: the graph engine and merge_stores called on one in-memory      *)
(* Store that starts empty. Every call leaves the Store it was made on in  *)
(* `pre`, its name and arguments in `call`, the Store it left in `store`   *)
(* and its return value in `result`.                                       *)
(***************************************************************************)
Call(op, args) == [op |-> op, args |-> args]

Record(op, args, r) ==
  /\ now < MaxCalls
  /\ pre' = store
  /\ call' = Call(op, args)
  /\ store' = r.store
  /\ result' = r.res
  /\ now' = now + 1
  /\ UNCHANGED <<mergeVars, syncVars>>

OpCreate ==
  /\ Cardinality(Keys(store)) < MaxItems
  /\ \E id \in generate_id(Keys(store)), parent_id \in ParentArgs :
       Record("create_item", <<parent_id, id>>,
              create_item(store, DefaultTitle, "Task", DefaultPriority, None, parent_id, id, now + 1))

OpDelete == \E p \in Prefixes : Record("delete_item", <<p>>, delete_item(store, p))

OpSetParent ==
  \E c \in Prefixes, p \in Prefixes : Record("set_parent", <<c, p>>, set_parent(store, c, p))

OpAddBlocking ==
  \E a \in Prefixes, b \in Prefixes :
    Record("add_blocking_dep", <<a, b>>, add_blocking_dep(store, a, b))

OpRemoveDep ==
  \E a \in Prefixes, b \in Prefixes : Record("remove_dep", <<a, b>>, remove_dep(store, a, b))

\* Base documents for a merge of s with itself: empty, s, s without its edges,
\* s with every field of every item different, a document on the ids s does
\* not use, and a document on all ids with edges of its own.
SelfMergeBases(s) ==
  {EmptyStore,
   s,
   [s EXCEPT !.deps = <<>>],
   [s EXCEPT !.items = [k \in Keys(s) |->
       Item(k, "b", "d", "Epic", "Closed", 1, "alice", 0, 0)]],
   [items |-> [k \in IDS \ Keys(s) |-> Item(k, "t", None, "Task", "Open", 2, None, 0, 0)],
    deps |-> <<>>],
   [items |-> [k \in IDS |-> Item(k, "t", None, "Task", "Open", 2, None, 0, 0)],
    deps |-> <<Dep(<<1, 2>>, <<1, 1>>, "Parent"), Dep(<<1, 1>>, <<1, 2>>, "Blocks"),
              Dep(<<2, 1>>, <<1, 1>>, "Blocks")>>]}

\* merge_stores(base, s, s) with s the Store in memory; the result replaces it.
OpMergeSelf ==
  \E b \in SelfMergeBases(store) : \E m \in merge_stores(b, store, store) :
    Record("merge_stores", <<b>>, [store |-> m, res |-> Ok(Unit)])

NextOps ==
  \/ OpCreate
  \/ OpDelete
  \/ OpSetParent
  \/ OpAddBlocking
  \/ OpRemoveDep
  \/ OpMergeSelf

SpecOps == Init /\ [][NextOps]_vars

(***************************************************************************)
(* SpecDoc: resolve_id, ready_items and the close command applied to       *)
(* documents drawn from bounded families. A query leaves the document as   *)
(* it is and its answer in `result`; close changes the document.           *)
(***************************************************************************)
\* Keys of different lengths, so that a key can be a prefix of another key.
KeyStrings == Prefixes \ {<<>>}

\* Documents over every set of keys, all items alike, no edges.
ResolveInputs ==
  \E ks \in SUBSET KeyStrings :
    store = [items |-> [k \in ks |-> Item(k, "t", None, "Task", "Open", 2, None, 0, 0)],
             deps |-> <<>>]

\* X, Y and Z with every status and priority, X claimed or not, and Y and Z
\* blocking X or not.
ReadyInputs ==
  \E st \in [{X, Y, Z} -> Status], pr \in [{X, Y, Z} -> {1, 2}], cl \in {None, "alice"},
     bl \in SUBSET {Y, Z} :
    store = [items |-> [k \in {X, Y, Z} |->
                         Item(k, "t", None, "Task", st[k], pr[k],
                              IF k = X THEN cl ELSE None, 0, 0)],
             deps |-> SelectSeq(<<Dep(Y, X, "Blocks"), Dep(Z, X, "Blocks")>>,
                                LAMBDA d : d.from_id \in bl)]

\* X with Y and Z as children or not, every status, X claimed or not, and Y
\* blocking X or not.
CloseInputs ==
  \E st \in [{X, Y, Z} -> Status], cl \in {None, "alice"}, ch \in SUBSET {Y, Z},
     bl \in BOOLEAN :
    store = [items |-> [k \in {X, Y, Z} |->
                         Item(k, "t", None, "Task", st[k], 2,
                              IF k = X THEN cl ELSE None, 0, 0)],
             deps |-> SelectSeq(<<Dep(Y, X, "Parent"), Dep(Z, X, "Parent")>>,
                                LAMBDA d : d.from_id \in ch)
                      \o (IF bl THEN <<Dep(Y, X, "Blocks")>> ELSE <<>>)]

InitDoc ==
  /\ ResolveInputs \/ ReadyInputs \/ CloseInputs
  /\ result = Ok(Unit) /\ pre = EmptyStore /\ call = NoCall
  /\ now = 0 /\ idleMerge /\ idleSync

\* A call that only reads the document.
Query(op, args, res) ==
  /\ pre' = store
  /\ call' = Call(op, args)
  /\ result' = res
  /\ UNCHANGED <<store, now, mergeVars, syncVars>>

Resolve == \E p \in Prefixes : Query("resolve_id", <<p>>, resolve_id(store, p))

Ready == Query("ready_items", <<>>, Ok(ready_items(store)))

\* Cmd::Close: load, resolve_id, close_item, and save when it returned Ok.
Close ==
  /\ now < MaxCalls
  /\ \E p \in Prefixes :
       LET r == resolve_id(store, p)
           c == IF r.ok THEN close_item(store, r.val, now + 1)
                ELSE [store |-> store, res |-> r]
       IN  /\ pre' = store
           /\ call' = Call("close", <<p>>)
           /\ store' = c.store
           /\ result' = c.res
           /\ now' = IF c.res.ok THEN now + 1 ELSE now
  /\ UNCHANGED <<mergeVars, syncVars>>

NextDoc == Resolve \/ Ready \/ Close

SpecDoc == InitDoc /\ [][NextDoc]_vars

(***************************************************************************)
(* SpecParent: set_parent applied to documents of three items in which     *)
(* every item has at most one Parent edge, to any other item: forests, and *)
(* the documents with a parent cycle that a merge of two sides can leave.  *)
(***************************************************************************)

ParentInputs ==
  \E par \in [{X, Y, Z} -> {<<>>, X, Y, Z}] :
    /\ \A k \in {X, Y, Z} : par[k] # k
    /\ store = [items |-> [k \in {X, Y, Z} |-> Item(k, "t", None, "Task", "Open", 2, None, 0, 0)],
                deps |-> SelectSeq(<<Dep(X, par[X], "Parent"), Dep(Y, par[Y], "Parent"),
                                     Dep(Z, par[Z], "Parent")>>,
                                   LAMBDA d : d.to_id # <<>>)]

InitParent ==
  /\ ParentInputs
  /\ result = Ok(Unit) /\ pre = EmptyStore /\ call = NoCall
  /\ now = 0 /\ idleMerge /\ idleSync

NextParent == OpSetParent

SpecParent == InitParent /\ [][NextParent]_vars

(***************************************************************************)
(* SpecEdit: one actor edits a copy (ours) of a well-formed base with the  *)
(* commands create, update, close, delete, update --parent and dep add /   *)
(* rm; the copy is then merged with the untouched base, as local side or   *)
(* as remote side.                                                          *)
(***************************************************************************)

\* Cmd::Update with --title and --status (<<>> for an option not given).
update_item(s, prefix, title, status, t) ==
  LET r == resolve_id(s, prefix)
  IN  IF ~r.ok THEN [store |-> s, res |-> r]
      ELSE [store |->
              [s EXCEPT !.items[r.val].title = IF title = <<>> THEN @ ELSE title[1],
                        !.items[r.val].status = IF status = <<>> THEN @ ELSE status[1],
                        !.items[r.val].updated_at = t],
            res |-> Ok(Unit)]

\* Items X and Y, Open, with Y a child of X or not and X blocking Y or not.
EditInputs ==
  \E D \in SUBSET {Dep(Y, X, "Parent"), Dep(X, Y, "Blocks")} :
    base = [items |-> [k \in {X, Y} |-> Item(k, "t", None, "Task", "Open", 2, None, 0, 0)],
            deps |-> CHOOSE seq \in sorted_orders(D) : TRUE]

InitEdit ==
  /\ EditInputs
  /\ ours = base /\ theirs = base
  /\ merged = EmptyStore /\ phase = Round("input", 0)
  /\ now = 0 /\ idleGraph /\ idleSync

\* load(); <call>?; save() on the copy.
Edit(r) ==
  /\ phase.step = "input" /\ phase.n < MaxEditOps
  /\ r.res.ok
  /\ ours' = r.store
  /\ now' = now + 1
  /\ phase' = Round("input", phase.n + 1)
  /\ UNCHANGED <<base, theirs, merged, graphVars, syncVars>>

EditCreate ==
  /\ Cardinality(Keys(ours)) < MaxItems
  /\ \E id \in generate_id(Keys(ours)), parent_id \in IdParentArgs :
       Edit(create_item(ours, DefaultTitle, "Task", DefaultPriority, None,
                        parent_id, id, now + 1))

EditUpdate ==
  \E p \in IDS, title \in {<<>>, <<"o">>}, status \in {<<>>, <<"Open">>, <<"Closed">>} :
    Edit(update_item(ours, p, title, status, now + 1))

EditClose == \E p \in IDS : Edit(close_item(ours, p, now + 1))

EditDelete == \E p \in IDS : Edit(delete_item(ours, p))

EditSetParent == \E c \in IDS, p \in IDS : Edit(set_parent(ours, c, p))

EditDepAdd == \E a \in IDS, b \in IDS : Edit(add_blocking_dep(ours, a, b))

EditDepRm == \E a \in IDS, b \in IDS : Edit(remove_dep(ours, a, b))

\* merge_stores with the edited copy as the local or as the remote side.
MergeEdit ==
  /\ phase.step = "input"
  /\ \/ \E m \in merge_stores(base, ours, theirs) :
          merged' = m /\ phase' = Round("merged", 1)
     \/ \E m \in merge_stores(base, theirs, ours) :
          merged' = m /\ phase' = Round("merged", 2)
  /\ UNCHANGED <<base, ours, theirs, now, graphVars, syncVars>>

NextEdit ==
  \/ EditCreate
  \/ EditUpdate
  \/ EditClose
  \/ EditDelete
  \/ EditSetParent
  \/ EditDepAdd
  \/ EditDepRm
  \/ MergeEdit

SpecEdit == InitEdit /\ [][NextEdit]_vars

(***************************************************************************)
(* Serialization (store.rs from_json / to_json, the serde derives of        *)
(* model.rs). A JSON object is a function from its member names to their   *)
(* values; a member that is skipped is not in its domain.                  *)
(***************************************************************************)
NoMembers == [m \in {} |-> None]

\* #[serde(rename_all = "snake_case")] on the three enums.
item_type_token(t) ==
  CASE t = "Epic" -> "epic" [] t = "Feature" -> "feature" [] t = "Task" -> "task"

status_token(st) == CASE st = "Open" -> "open" [] st = "Closed" -> "closed"

dep_type_token(k) == CASE k = "Parent" -> "parent" [] k = "Blocks" -> "blocks"

\* Serialize for Item: description and claimed_by are skipped when None.
item_to_json(item) ==
  [id |-> item.id, title |-> item.title, item_type |-> item_type_token(item.item_type),
   status |-> status_token(item.status), priority |-> item.priority,
   created_at |-> item.created_at, updated_at |-> item.updated_at]
  @@ (IF item.description # None THEN [description |-> item.description] ELSE NoMembers)
  @@ (IF item.claimed_by # None THEN [claimed_by |-> item.claimed_by] ELSE NoMembers)

dep_to_json(d) ==
  [from_id |-> d.from_id, to_id |-> d.to_id, dep_type |-> dep_type_token(d.dep_type)]

to_json(s) ==
  [items |-> [k \in Keys(s) |-> item_to_json(s.items[k])],
   deps |-> [i \in 1..Len(s.deps) |-> dep_to_json(s.deps[i])]]

\* Deserialize for Status.
status_from_token(tok) ==
  IF tok \in {"open", "in_progress", "blocked", "deferred"} THEN Ok("Open")
  ELSE IF tok = "closed" THEN Ok("Closed")
  ELSE Err("UnknownStatus")

item_type_from_token(tok) ==
  CASE tok = "epic" -> Ok("Epic") [] tok = "feature" -> Ok("Feature")
    [] tok = "task" -> Ok("Task") [] OTHER -> Err("UnknownVariant")

dep_type_from_token(tok) ==
  CASE tok = "parent" -> Ok("Parent") [] tok = "blocks" -> Ok("Blocks")
    [] OTHER -> Err("UnknownVariant")

RequiredMembers ==
  {"id", "title", "item_type", "status", "priority", "created_at", "updated_at"}

\* Deserialize for Item with claimed_by required like the other members.
item_from_json_claim_required(obj) ==
  IF ~((RequiredMembers \cup {"claimed_by"}) \subseteq DOMAIN obj) THEN Err("MissingField")
  ELSE IF ~item_type_from_token(obj.item_type).ok THEN item_type_from_token(obj.item_type)
  ELSE IF ~status_from_token(obj.status).ok THEN status_from_token(obj.status)
  ELSE Ok(Item(obj.id, obj.title,
               IF "description" \in DOMAIN obj THEN obj.description ELSE None,
               item_type_from_token(obj.item_type).val,
               status_from_token(obj.status).val,
               obj.priority, obj.claimed_by, obj.created_at, obj.updated_at))

\* Deserialize for Item: a missing Option member reads as None.
item_from_json(obj) ==
  IF ~(RequiredMembers \subseteq DOMAIN obj) THEN Err("MissingField")
  ELSE IF ~item_type_from_token(obj.item_type).ok THEN item_type_from_token(obj.item_type)
  ELSE IF ~status_from_token(obj.status).ok THEN status_from_token(obj.status)
  ELSE Ok(Item(obj.id, obj.title,
               IF "description" \in DOMAIN obj THEN obj.description ELSE None,
               item_type_from_token(obj.item_type).val,
               status_from_token(obj.status).val,
               obj.priority,
               IF "claimed_by" \in DOMAIN obj THEN obj.claimed_by ELSE None,
               obj.created_at, obj.updated_at))

dep_from_json(obj) ==
  IF ~dep_type_from_token(obj.dep_type).ok THEN dep_type_from_token(obj.dep_type)
  ELSE Ok(Dep(obj.from_id, obj.to_id, dep_type_from_token(obj.dep_type).val))

\* from_json: the first member that does not parse fails the whole parse.
from_json(json) ==
  LET bad_items == {k \in DOMAIN json.items : ~item_from_json(json.items[k]).ok}
      bad_deps == {i \in DOMAIN json.deps : ~dep_from_json(json.deps[i]).ok}
  IN  IF bad_items # {}
      THEN item_from_json(json.items[CHOOSE k \in bad_items : TRUE])
      ELSE IF bad_deps # {}
      THEN dep_from_json(json.deps[CHOOSE i \in bad_deps : TRUE])
      ELSE Ok([items |-> [k \in DOMAIN json.items |-> item_from_json(json.items[k]).val],
               deps |-> [i \in DOMAIN json.deps |-> dep_from_json(json.deps[i]).val]])

(***************************************************************************)
(* SpecJson: a document is serialized, the snapshot is possibly one that   *)
(* another version of the program wrote (its status tokens differ), and    *)
(* the snapshot is parsed. `pre` is the document that was serialized,      *)
(* `result` the snapshot or what parsing it returned.                      *)
(***************************************************************************)
\* Status tokens found in snapshots: the current ones, the legacy ones, and
\* tokens no version wrote.
StatusTokens == {"open", "closed", "in_progress", "blocked", "deferred", "done", "Open", ""}

\* Documents with one or two items, every optional member present or not.
JsonInputs ==
  \E ks \in {{X}, {X, Y}}, de \in {None, "d", ""}, cl \in {None, "alice"},
     st \in Status, ty \in ItemType, pr \in {0, 2}, up \in {0, 1},
     ds \in {<<>>, <<Dep(Y, X, "Parent")>>, <<Dep(X, Y, "Blocks"), Dep(Y, X, "Parent")>>} :
    /\ ds # <<>> => ks = {X, Y}
    /\ store = [items |-> [k \in ks |->
                    IF k = X THEN Item(k, "t", de, ty, st, pr, cl, 0, up)
                    ELSE Item(k, "u", None, "Task", "Open", 2, None, 0, 0)],
                deps |-> ds]

InitJson ==
  /\ JsonInputs
  /\ result = Ok(Unit) /\ pre = EmptyStore /\ call = NoCall
  /\ now = 0 /\ idleMerge /\ idleSync

\* save(): to_json(&s), the snapshot written.
ToJson ==
  /\ call.op = "none"
  /\ pre' = store
  /\ call' = Call("to_json", <<>>)
  /\ result' = Ok(to_json(store))
  /\ UNCHANGED <<store, now, mergeVars, syncVars>>

\* The snapshot as another version wrote it: item X carries status token tok.
OtherVersion ==
  /\ call.op = "to_json"
  /\ \E tok \in StatusTokens :
       /\ call' = Call("snapshot", <<tok>>)
       /\ result' = Ok([result.val EXCEPT !.items[X].status = tok])
  /\ UNCHANGED <<store, pre, now, mergeVars, syncVars>>

\* load(): from_json of the snapshot; the parsed Store is the one in memory.
FromJson ==
  /\ call.op \in {"to_json", "snapshot"}
  /\ call' = Call("from_json", <<result.val>>)
  /\ result' = from_json(result.val)
  /\ store' = IF from_json(result.val).ok THEN from_json(result.val).val ELSE store
  /\ UNCHANGED <<pre, now, mergeVars, syncVars>>

NextJson == ToJson \/ OtherVersion \/ FromJson

SpecJson == InitJson /\ [][NextJson]_vars

(***************************************************************************)
(* Structural predicates on a Store.                                       *)
(***************************************************************************)
ParentEdges(s) == {d \in Elems(s.deps) : d.dep_type = "Parent"}

\* The items reached from the items of `from` by one ParentOf step.
ParentsOf(s, from) == {d.to_id : d \in {e \in ParentEdges(s) : e.from_id \in from}}

\* The direct and transitive ParentOf-ancestors of x.
RECURSIVE AncestorsFrom(_, _, _)
AncestorsFrom(s, seen, n) ==
  IF n = 0 THEN seen
  ELSE AncestorsFrom(s, seen \cup ParentsOf(s, seen), n - 1)

Ancestors(s, x) == AncestorsFrom(s, ParentsOf(s, {x}), Len(s.deps))

Acyclic(s) ==
  \A d \in ParentEdges(s) : d.from_id \notin Ancestors(s, d.from_id)

DistinctIds(s) ==
  \A k1 \in Keys(s), k2 \in Keys(s) : s.items[k1].id = s.items[k2].id => k1 = k2

AtMostOneParent(s) ==
  \A d1 \in ParentEdges(s), d2 \in ParentEdges(s) : d1.from_id = d2.from_id => d1 = d2

NoDangling(s) ==
  \A d \in Elems(s.deps) : d.from_id \in Keys(s) /\ d.to_id \in Keys(s)


\* How many times edge d occurs in a Vec of edges.
Count(deps, d) == Cardinality({i \in 1..Len(deps) : deps[i] = d})

\* The same edge collection, whatever the order.
SameEdges(x, y) == \A d \in Elems(x) \cup Elems(y) : Count(x, d) = Count(y, d)

SameDoc(a, b) == a.items = b.items /\ SameEdges(a.deps, b.deps)

\* The ids of s that have p as a prefix.
Matches(s, p) == {id \in Keys(s) : starts_with(id, p)}

\* What p names in s: p itself when it is an id, else its only match, else nothing.
Target(s, p) ==
  IF p \in Keys(s) THEN {p}
  ELSE IF Cardinality(Matches(s, p)) = 1 THEN Matches(s, p)
  ELSE {}

Mentions(d, id) == d.from_id = id \/ d.to_id = id

\* The claimant of X recorded at the remote head (None when X is absent).
RemoteClaimant ==
  IF X \in Keys(commits[remoteHead].store)
  THEN commits[remoteHead].store.items[X].claimed_by
  ELSE None

Returned == {a \in Actors : outcome[a] # "none"}
InClaim == {a \in Actors : pc[a] \in {"claim_push", "claim_retry", "claim_push2"}}
Winners == {a \in Actors : outcome[a] = "Ok"}

\* C1: starting from local heads equal to a remote head where X is Open and
\* unclaimed, and with no other edit made, once two actors have called
\* claim(X) and both calls have returned, exactly one returned success, the
\* remote head records that actor as claimant of X, and the other call
\* failed with AlreadyClaimed.
C1_ClaimRace ==
  (edits = 0 /\ InClaim = {} /\ Cardinality(Returned) = 2) =>
    \E w \in Returned :
      /\ outcome[w] = "Ok"
      /\ RemoteClaimant = w
      /\ \A o \in Returned \ {w} : outcome[o] = "AlreadyClaimed"

\* The two calls raced: both saved their claim before either push, the
\* loser's push was rejected and its retry found the winner on the remote.
C1_Witness ==
  /\ edits = 0 /\ InClaim = {} /\ Cardinality(Returned) = 2
  /\ \E w \in Returned, o \in Returned :
       /\ outcome[w] = "Ok" /\ outcome[o] = "AlreadyClaimed"
       /\ RemoteClaimant = w
       /\ commits[localHead[o]].store.items[X].claimed_by = o

\* C2: with any number of claim calls on X and with unrelated edits being
\* published meanwhile, at most one claim call returns success, and a
\* claimant recorded at the remote head is never replaced.
C2_OneWinner ==
  /\ [](Cardinality(Winners) <= 1)
  /\ [][RemoteClaimant # None => RemoteClaimant' = RemoteClaimant]_vars

\* An unrelated edit was published while two claims were in flight: one
\* claim won after merging, the other merged too and lost its second push.
C2_Witness ==
  /\ edits > 0
  /\ commits[remoteHead].store.items[Y].title = "edited"
  /\ \E w \in Actors, o \in Actors :
       /\ outcome[w] = "Ok" /\ outcome[o] = "PushFailed"
       /\ RemoteClaimant = w

\* C3: in every document reached from the empty one by create, delete,
\* setParent, addBlocking and removeDependency calls, failing ones included,
\* no two items share an id and no item is its own ParentOf-ancestor.
C3_DistinctAcyclic == DistinctIds(store) /\ Acyclic(store)

\* A setParent call was just refused for a transitive cycle: the document holds
\* a chain of two ParentOf edges.
C3_Witness ==
  /\ result = Err("CycleDetected")
  /\ \E d1 \in ParentEdges(store), d2 \in ParentEdges(store) : d1.to_id = d2.from_id

AfterMerge == phase.step = "merged"

\* C4: the ParentOf relation of merge(base, local, remote) is acyclic whenever
\* local and remote were each obtained from base by successful graph-engine
\* calls.
C4_MergeAcyclic == AfterMerge => Acyclic(merged)

\* C5: in every document reached by graph-engine calls and merges each item
\* leaves at most one ParentOf edge; stated for a merge in which no item was
\* added by both sides, the case of a child reparented differently by each.
C5_OneParent ==
  /\ AtMostOneParent(ours) /\ AtMostOneParent(theirs)
  /\ (AfterMerge /\ Keys(merged) \subseteq Keys(base)) => AtMostOneParent(merged)

\* C6: in every document reached by graph-engine calls and merges both
\* endpoints of every edge are items of the document.
C6_NoDangling ==
  NoDangling(base) /\ NoDangling(ours) /\ NoDangling(theirs) /\ NoDangling(merged)

\* A merge has just dropped an edge that ours added, because theirs deleted
\* the item at one of its ends.
C6_Witness ==
  /\ AfterMerge
  /\ \E d \in Elems(ours.deps) :
       /\ d \notin Elems(base.deps)
       /\ d \notin Elems(merged.deps)
       /\ d.to_id \in Keys(base) /\ d.to_id \notin Keys(theirs)

\* C7: item presence in merge(base, local, remote) follows the table: an id
\* absent from base survives iff local or remote has it, in remote's version
\* when remote has it and in local's otherwise; an id of base survives iff both
\* local and remote still have it.
C7_Presence ==
  AfterMerge =>
    /\ Keys(merged) \subseteq Keys(base) \cup Keys(ours) \cup Keys(theirs)
    /\ \A id \in Keys(base) \cup Keys(ours) \cup Keys(theirs) :
         /\ id \notin Keys(base) =>
              /\ id \in Keys(merged) <=> (id \in Keys(ours) \/ id \in Keys(theirs))
              /\ id \in Keys(theirs) => merged.items[id] = theirs.items[id]
              /\ (id \in Keys(ours) /\ id \notin Keys(theirs)) =>
                   merged.items[id] = ours.items[id]
         /\ id \in Keys(base) =>
              (id \in Keys(merged) <=> (id \in Keys(ours) /\ id \in Keys(theirs)))

\* An add/add race on X came out as remote's version, and Y, which remote
\* deleted while local modified it, was dropped.
C7_Witness ==
  /\ AfterMerge
  /\ X \notin Keys(base) /\ X \in Keys(ours) /\ X \in Keys(theirs)
  /\ ours.items[X] # theirs.items[X] /\ merged.items[X] = theirs.items[X]
  /\ Y \in Keys(base) /\ Y \in Keys(ours) /\ Y \notin Keys(theirs)
  /\ ours.items[Y] # base.items[Y] /\ Y \notin Keys(merged)

InAllThree == Keys(base) \cap Keys(ours) \cap Keys(theirs)

\* local's value of a field if local changed it, remote's otherwise.
LocalFirst(b, o, t) == IF o # b THEN o ELSE t

\* C8: for an item in base, local and remote, each of title, description,
\* type, status and priority of the merged item is local's value if local's
\* differs from base's, and remote's value otherwise.
C8_FieldMerge ==
  AfterMerge =>
    \A id \in InAllThree :
      LET b == base.items[id]
          o == ours.items[id]
          t == theirs.items[id]
          m == merged.items[id]
      IN  /\ m.title = LocalFirst(b.title, o.title, t.title)
          /\ m.description = LocalFirst(b.description, o.description, t.description)
          /\ m.item_type = LocalFirst(b.item_type, o.item_type, t.item_type)
          /\ m.status = LocalFirst(b.status, o.status, t.status)
          /\ m.priority = LocalFirst(b.priority, o.priority, t.priority)

\* Local changed only the title and remote only the priority, both are kept;
\* and both changed the description, where local won.
C8_Witness ==
  /\ AfterMerge /\ X \in InAllThree
  /\ ours.items[X].title # base.items[X].title
  /\ theirs.items[X].title = base.items[X].title
  /\ ours.items[X].priority = base.items[X].priority
  /\ theirs.items[X].priority # base.items[X].priority
  /\ merged.items[X].title = ours.items[X].title
  /\ merged.items[X].priority = theirs.items[X].priority
  /\ ours.items[X].description # base.items[X].description
  /\ theirs.items[X].description # base.items[X].description
  /\ ours.items[X].description # theirs.items[X].description
  /\ merged.items[X].description = ours.items[X].description

\* C9: for an item in base, local and remote the merged claimant is remote's
\* whenever remote's differs from base's, local's otherwise, and the merged
\* updated_at is the later of local's and remote's.
C9_ClaimantMerge ==
  AfterMerge =>
    \A id \in InAllThree :
      LET b == base.items[id]
          o == ours.items[id]
          t == theirs.items[id]
          m == merged.items[id]
      IN  /\ m.claimed_by = IF t.claimed_by # b.claimed_by THEN t.claimed_by
                                                            ELSE o.claimed_by
          /\ m.updated_at >= o.updated_at /\ m.updated_at >= t.updated_at
          /\ m.updated_at \in {o.updated_at, t.updated_at}

\* Both sides claimed an unclaimed item for different actors and remote's
\* claimant came out, with local's later timestamp.
C9_Witness ==
  /\ AfterMerge /\ X \in InAllThree
  /\ base.items[X].claimed_by = None
  /\ ours.items[X].claimed_by = "alice" /\ theirs.items[X].claimed_by = "bob"
  /\ merged.items[X].claimed_by = "bob"
  /\ ours.items[X].updated_at > theirs.items[X].updated_at
  /\ merged.items[X].updated_at = ours.items[X].updated_at

\* C10: an edge is in merge(base, local, remote) iff both its endpoints
\* survived item-merge and it is in local and not (in base and absent from
\* remote), or in remote and not (in base and absent from local); the edge
\* list has no duplicates and is sorted ascending by (from, to).
C10_DepMerge ==
  AfterMerge =>
    LET B == Elems(base.deps)
        O == Elems(ours.deps)
        T == Elems(theirs.deps)
    IN  /\ Elems(merged.deps) =
             {d \in B \cup O \cup T :
                /\ d.from_id \in Keys(merged) /\ d.to_id \in Keys(merged)
                /\ \/ d \in O /\ ~(d \in B /\ d \notin T)
                   \/ d \in T /\ ~(d \in B /\ d \notin O)}
        /\ Cardinality(Elems(merged.deps)) = Len(merged.deps)
        /\ \A i \in 1..Len(merged.deps), j \in 1..Len(merged.deps) :
             i < j => dep_key_le(merged.deps[i], merged.deps[j])

\* A merge kept an edge each side added, dropped one that remote removed from
\* base, dropped one whose endpoint did not survive, and sorted what is left.
C10_Witness ==
  /\ AfterMerge
  /\ Len(merged.deps) >= 2
  /\ \E d \in Elems(ours.deps) \ Elems(base.deps) :
       d \notin Elems(theirs.deps) /\ d \in Elems(merged.deps)
  /\ \E d \in Elems(theirs.deps) \ Elems(base.deps) :
       d \notin Elems(ours.deps) /\ d \in Elems(merged.deps)
  /\ \E d \in Elems(base.deps) \cap Elems(ours.deps) :
       /\ d \notin Elems(theirs.deps) /\ d \notin Elems(merged.deps)
       /\ d.from_id \in Keys(merged) /\ d.to_id \in Keys(merged)
  /\ \E d \in Elems(ours.deps) \ Elems(base.deps) :
       d.from_id \notin Keys(merged) /\ d \notin Elems(merged.deps)

\* C11: merging a document reached by graph-engine calls with itself, over
\* any base, gives that document back: the same items with the same fields and
\* the same edge collection, whether or not its ids occur in the base.
C11_MergeIdempotent == call.op = "merge_stores" => SameDoc(store, pre)

\* A self-merge of a document with edges, over a base that holds some of its
\* ids with other field values, and whose result lists the edges in another
\* order than the document did.
C11_Witness ==
  /\ call.op = "merge_stores"
  /\ pre.deps # <<>> /\ store.deps # pre.deps
  /\ \E b \in {call.args[1]} :
       /\ Keys(b) \cap Keys(pre) # {} /\ Keys(b) # Keys(pre)
       /\ \E k \in Keys(b) \cap Keys(pre) : b.items[k] # pre.items[k]

\* C12: delete of an existing item X removes X and exactly the edges that
\* mention X, of both kinds; every other item and edge is unchanged (a former
\* child of X is left without parent); delete of an absent id fails NotFound.
C12_Delete ==
  call.op = "delete_item" =>
    LET p == call.args[1]
    IN  /\ \A x \in Target(pre, p) :
             /\ result = Ok(Unit)
             /\ Keys(store) = Keys(pre) \ {x}
             /\ \A k \in Keys(store) : store.items[k] = pre.items[k]
             /\ \A d \in Elems(pre.deps) \cup Elems(store.deps) :
                  Count(store.deps, d) = IF Mentions(d, x) THEN 0 ELSE Count(pre.deps, d)
        /\ Matches(pre, p) = {} => result = Err("NotFound") /\ store = pre

\* A delete of an item that had a child and another edge: the child is still
\* there, now without parent.
C12_Witness ==
  /\ call.op = "delete_item" /\ result.ok
  /\ \E d \in Elems(pre.deps) :
       /\ d.dep_type = "Parent" /\ d.to_id \notin Keys(store)
       /\ d.from_id \in Keys(store) /\ get_parent(store, d.from_id) = <<>>

\* C13: resolve_id(p) returns p whenever p is a key, even when other keys have
\* p as a prefix; otherwise the only key with prefix p, NotFound when no key
\* has it, AmbiguousPrefix when two or more have it; the document is unchanged.
C13_Resolve ==
  call.op = "resolve_id" =>
    LET p == call.args[1]
    IN  /\ store = pre
        /\ IF p \in Keys(pre) THEN result = Ok(p)
           ELSE IF Matches(pre, p) = {} THEN result = Err("NotFound")
           ELSE IF Cardinality(Matches(pre, p)) >= 2 THEN result = Err("AmbiguousPrefix")
           ELSE result.ok /\ Matches(pre, p) = {result.val}

\* resolve_id of a key that is also a proper prefix of another key.
C13_Witness ==
  /\ call.op = "resolve_id"
  /\ call.args[1] \in Keys(pre)
  /\ Cardinality(Matches(pre, call.args[1])) >= 2
  /\ result = Ok(call.args[1])

\* C14: create with a parent argument that names an existing item P (as its
\* id or as a unique prefix) succeeds, adding one item under a new id, Open
\* and unclaimed, and the one edge (new id, P, Parent); with a parent argument
\* no id matches it fails NotFound; without parent it adds the item, no edge.
C14_Create ==
  call.op = "create_item" =>
    LET parent_id == call.args[1]
        added == Keys(store) \ Keys(pre)
        one_item == /\ result.ok
                    /\ added = {result.val} /\ Keys(pre) \subseteq Keys(store)
                    /\ \A k \in Keys(pre) : store.items[k] = pre.items[k]
                    /\ store.items[result.val].status = "Open"
                    /\ store.items[result.val].claimed_by = None
    IN  /\ parent_id = <<>> => one_item /\ store.deps = pre.deps
        /\ parent_id # <<>> =>
             /\ \A P \in Target(pre, parent_id[1]) :
                  /\ one_item
                  /\ store.deps = Append(pre.deps, Dep(result.val, P, "Parent"))
             /\ Matches(pre, parent_id[1]) = {} =>
                  result = Err("NotFound") /\ store = pre

\* C15: after a successful set_parent(child, parent) exactly one Parent edge
\* leaves child and it points to parent; every Blocks edge and every Parent
\* edge of another item is unchanged; set_parent(x, x) fails SelfReference.
C15_SetParent ==
  call.op = "set_parent" =>
    \A c \in Target(pre, call.args[1]), p \in Target(pre, call.args[2]) :
      /\ c = p => result = Err("SelfReference") /\ store = pre
      /\ result.ok =>
           /\ store.items = pre.items
           /\ Count(store.deps, Dep(c, p, "Parent")) = 1
           /\ \A d \in Elems(pre.deps) \cup Elems(store.deps) :
                IF d.dep_type = "Parent" /\ d.from_id = c
                THEN d \in Elems(store.deps) => d.to_id = p
                ELSE Count(store.deps, d) = Count(pre.deps, d)

\* A successful set_parent on a child that had another parent before, in a
\* document that holds other edges as well.
C15_Witness ==
  /\ call.op = "set_parent" /\ result.ok
  /\ \E c \in Target(pre, call.args[1]), p \in Target(pre, call.args[2]) :
       /\ get_parent(pre, c) # <<>> /\ get_parent(pre, c) # <<p>>
       /\ get_parent(store, c) = <<p>>
       /\ Len(store.deps) > 1

NoSelfEdges(s) == \A d \in Elems(s.deps) : d.from_id # d.to_id

NoDupEdges(s) == \A d \in Elems(s.deps) : Count(s.deps, d) = 1

\* C16: no document reached by graph-engine commands and merges holds an
\* edge from an item to itself or the same (from, to, kind) edge twice; on any
\* such document add_blocking_dep(a, a) fails SelfReference, add_blocking_dep
\* of an edge that is there fails DuplicateDependency, and any other call adds
\* exactly the one Blocks edge (blocker, blocked).
C16_NoSelfNoDup ==
  /\ \A s \in {base, ours, theirs, merged} : NoSelfEdges(s) /\ NoDupEdges(s)
  /\ \A s \in {base, ours, theirs, merged} : \A a \in Keys(s), b \in Keys(s) :
       LET r == add_blocking_dep(s, a, b)
           edge == Dep(a, b, "Blocks")
       IN  IF a = b THEN r.res = Err("SelfReference") /\ r.store = s
           ELSE IF edge \in Elems(s.deps)
           THEN r.res = Err("DuplicateDependency") /\ r.store = s
           ELSE /\ r.res = Ok(Unit)
                /\ r.store.items = s.items
                /\ \A d \in Elems(s.deps) \cup {edge} :
                     Count(r.store.deps, d) = Count(s.deps, d) + (IF d = edge THEN 1 ELSE 0)

\* Both actors added the same Blocks edge to their documents; the merge
\* result holds it once, and adding it again there fails.
C16_Witness ==
  /\ phase.step = "merged"
  /\ \E d \in (Elems(ours.deps) \cap Elems(theirs.deps)) \ Elems(base.deps) :
       /\ d.dep_type = "Blocks"
       /\ Count(merged.deps, d) = 1
       /\ add_blocking_dep(merged, d.from_id, d.to_id).res = Err("DuplicateDependency")

\* C17: remove_dep(from, to) removes every edge on the pair, whatever its
\* kind, leaves every other edge (the reverse pair too) and every item
\* unchanged, and fails NotFound without changing anything when no edge is on
\* the pair.
C17_RemoveDep ==
  call.op = "remove_dep" =>
    \A f \in Target(pre, call.args[1]), t \in Target(pre, call.args[2]) :
      LET on_pair(d) == d.from_id = f /\ d.to_id = t
      IN  IF \E d \in Elems(pre.deps) : on_pair(d)
          THEN /\ result = Ok(Unit)
               /\ store.items = pre.items
               /\ \A d \in Elems(pre.deps) \cup Elems(store.deps) :
                    Count(store.deps, d) = IF on_pair(d) THEN 0 ELSE Count(pre.deps, d)
          ELSE result = Err("NotFound") /\ store = pre

\* A remove_dep that removed a Parent and a Blocks edge on the same pair.
C17_Witness ==
  /\ call.op = "remove_dep" /\ result.ok
  /\ \E d \in Elems(pre.deps), e \in Elems(pre.deps) :
       /\ d.from_id = e.from_id /\ d.to_id = e.to_id
       /\ d.dep_type = "Parent" /\ e.dep_type = "Blocks"
       /\ d \notin Elems(store.deps) /\ e \notin Elems(store.deps)

\* An item is ready: Open, unclaimed, and every item that blocks it Closed.
ReadyIn(s, k) ==
  /\ s.items[k].status = "Open"
  /\ s.items[k].claimed_by = None
  /\ \A d \in Elems(s.deps) :
       d.dep_type = "Blocks" /\ d.to_id = k =>
         d.from_id \in Keys(s) /\ s.items[d.from_id].status = "Closed"

\* C18: ready_items returns exactly the items that are Open, unclaimed and
\* have every Blocks-predecessor Closed, each once.
C18_ReadyExact ==
  call.op = "ready_items" =>
    /\ Elems(result.val) = {pre.items[k] : k \in {j \in Keys(pre) : ReadyIn(pre, j)}}
    /\ Len(result.val) = Cardinality(Elems(result.val))

\* ready_items leaves out an Open, unclaimed item of which one blocker is
\* Closed and another is not, and returns the other ready items.
C18_Witness ==
  /\ call.op = "ready_items"
  /\ result.val # <<>>
  /\ \E k \in Keys(pre) :
       /\ pre.items[k].status = "Open" /\ pre.items[k].claimed_by = None
       /\ pre.items[k] \notin Elems(result.val)
       /\ \E d \in Elems(pre.deps), e \in Elems(pre.deps) :
            /\ d.dep_type = "Blocks" /\ d.to_id = k
            /\ e.dep_type = "Blocks" /\ e.to_id = k
            /\ pre.items[d.from_id].status = "Closed"
            /\ pre.items[e.from_id].status = "Open"

\* C19: the result of ready_items is in ascending order of priority, items of
\* equal priority in ascending order of id.
C19_ReadyOrder ==
  call.op = "ready_items" =>
    \A i \in 1..Len(result.val), j \in 1..Len(result.val) :
      i < j =>
        \/ result.val[i].priority < result.val[j].priority
        \/ /\ result.val[i].priority = result.val[j].priority
           /\ str_lt(result.val[i].id, result.val[j].id)

\* Three ready items: two of equal priority first, in id order, then the item
\* with the least id, which has the greater priority number.
C19_Witness ==
  /\ call.op = "ready_items"
  /\ Len(result.val) = 3
  /\ result.val[1].priority = result.val[2].priority
  /\ result.val[3].id = X

C21_RoundTrip ==
  (call.op = "from_json" /\ call.args[1] = to_json(pre)) =>
    /\ result.ok
    /\ Keys(result.val) = Keys(pre)
    /\ \A k \in Keys(pre) : result.val.items[k] = pre.items[k]
    /\ Elems(result.val.deps) = Elems(pre.deps)
    /\ store = result.val

\* The round trip of a document with edges whose item X has neither
\* description nor claimant: both members are missing from the snapshot.
C21_Witness ==
  /\ call.op = "from_json" /\ call.args[1] = to_json(pre) /\ result.ok
  /\ pre.deps # <<>>
  /\ pre.items[X].description = None /\ pre.items[X].claimed_by = None
  /\ DOMAIN call.args[1].items[X] = RequiredMembers
  /\ result.val.items[X].status = "Closed"

\* C22: parsing a snapshot never fails because of a status token, and every
\* token other than "closed" reads as status Open.
C22_StatusTokens ==
  call.op = "from_json" =>
    /\ result.ok
    /\ \A k \in DOMAIN call.args[1].items :
         call.args[1].items[k].status # "closed" => result.val.items[k].status = "Open"

\* The heads a command starts from: local is a strict ancestor of remote.
Behind(cs, local, remote) == local # remote /\ is_ancestor(cs, local, remote)

\* The heads a command starts from: remote is a strict ancestor of local.
Ahead(cs, local, remote) == local # remote /\ is_ancestor(cs, remote, local)

\* The heads a command starts from: neither is an ancestor of the other.
Diverged(cs, local, remote) ==
  ~is_ancestor(cs, local, remote) /\ ~is_ancestor(cs, remote, local)

\* The step is actor a starting command name.
Begins(a, name) == pc[a] = "idle" /\ cmd'[a] # cmd[a] /\ cmd'[a].name = name

\* The step is a push of actor a's command name.
Pushes(a, name) == cmd[a].name = name /\ cmd'[a].pushes = cmd[a].pushes + 1

\* C23: a sync that starts with the local head a strict ancestor of the remote
\* head sets the local head to the remote head and returns: no commit is
\* made, no merge runs, nothing is pushed, and the remote head stays.
C23_SyncBehind ==
  [][\A a \in Actors :
       (Begins(a, "sync") /\ Behind(commits, localHead[a], remoteHead)) =>
         /\ localHead'[a] = remoteHead
         /\ commits' = commits
         /\ remoteHead' = remoteHead
         /\ pc'[a] = "idle"
         /\ cmd'[a].made = <<>> /\ cmd'[a].merges = 0 /\ cmd'[a].pushes = 0
         /\ cmd'[a].status = "Ok"]_vars

C23_Witness ==
  \E a \in Actors :
    /\ cmd[a].name = "sync"
    /\ Behind(commits, cmd[a].local0, cmd[a].remote0)
    /\ localHead[a] = cmd[a].remote0
    /\ commits[cmd[a].remote0].store # commits[cmd[a].local0].store

\* C24: a sync that starts with the remote head a strict ancestor of the
\* local head runs no merge and makes no commit, and when it has succeeded
\* the commit it published is the local head it started from.
C24_SyncAhead ==
  /\ [][\A a \in Actors :
          (Begins(a, "sync") /\ Ahead(commits, localHead[a], remoteHead)) =>
            (commits' = commits /\ cmd'[a].merges = 0)]_vars
  /\ [](\A a \in Actors :
          (/\ cmd[a].name = "sync"
           /\ Ahead(commits, cmd[a].local0, cmd[a].remote0)
           /\ cmd[a].status = "Ok") => cmd[a].published = cmd[a].local0)

\* The commits x and y share, and among them the most recent ones.
Shared(cs, x, y) == Anc(cs, x) \cap Anc(cs, y)
Latest(cs, x, y) ==
  {c \in Shared(cs, x, y) : \A d \in Shared(cs, x, y) \ {c} : c \notin Anc(cs, d)}

\* The documents a merge of x and y may take as base.
BaseDocs(cs, x, y) ==
  IF Shared(cs, x, y) = {} THEN {EmptyStore} ELSE {cs[c].store : c \in Latest(cs, x, y)}

\* C25: a sync that starts with neither head an ancestor of the other makes
\* exactly one commit; its parents are the local head and the fetched remote
\* head, its Store is merge_stores(base, local, remote) with the Store at the
\* most recent shared commit as base, or the empty Store when the heads share
\* no commit; when its push succeeds, the local and the remote head are both
\* that commit.
C25_SyncDiverged ==
  /\ [][\A a \in Actors :
          (Begins(a, "sync") /\ Diverged(commits, localHead[a], remoteHead)) =>
            LET new == Len(commits) + 1
                local == localHead[a]
            IN  /\ Len(commits') = new
                /\ SubSeq(commits', 1, Len(commits)) = commits
                /\ commits'[new].parents = {local, remoteHead}
                /\ \E b \in BaseDocs(commits, local, remoteHead) :
                     commits'[new].store \in
                       merge_stores(b, commits[local].store, commits[remoteHead].store)
                /\ localHead'[a] = new
                /\ cmd'[a].made = <<new>> /\ cmd'[a].merges = 1]_vars
  /\ [][\A a \in Actors :
          (/\ Pushes(a, "sync")
           /\ Diverged(commits, cmd[a].local0, cmd[a].remote0)
           /\ cmd'[a].status = "Ok") =>
            (remoteHead' = cmd[a].made[1] /\ localHead'[a] = cmd[a].made[1])]_vars

C25_Witness ==
  \E a \in Actors, b \in Actors :
    /\ cmd[a].name = "sync" /\ cmd[a].status = "Ok" /\ cmd[a].published # 0
    /\ Diverged(commits, cmd[a].local0, cmd[a].remote0)
    /\ Shared(commits, cmd[a].local0, cmd[a].remote0) = {}
    /\ cmd[b].name = "sync" /\ cmd[b].status = "Ok" /\ cmd[b].published # 0
    /\ Diverged(commits, cmd[b].local0, cmd[b].remote0)
    /\ Shared(commits, cmd[b].local0, cmd[b].remote0) # {}
    /\ commits[cmd[b].published].store # commits[cmd[b].remote0].store

\* C26: a sync ends in the push error only after a second push: the first
\* rejected push is followed by a fetch, a second merge and a second push.
C26_SyncRetry ==
  \A a \in Actors :
    (cmd[a].name = "sync" /\ cmd[a].status = "PushFailed") =>
      (cmd[a].pushes = 2 /\ cmd[a].merges = 2)

\* C27: the step that starts a claim or an unclaim moves the local head to the
\* fetched remote head exactly when the local head is an ancestor of it; the
\* command then stands on that head or on one new commit whose only parent it
\* is, runs no merge, and the former local head stays in the local history.
C27_FastForwardOnly ==
  [][\A a \in Actors :
       (Begins(a, "claim") \/ Begins(a, "unclaim")) =>
         LET local == localHead[a]
             moved == IF is_ancestor(commits, local, remoteHead) THEN remoteHead ELSE local
             new == Len(commits) + 1
         IN  /\ cmd'[a].synced = moved
             /\ cmd'[a].merges = 0
             /\ \/ commits' = commits /\ localHead'[a] = moved
                \/ /\ Len(commits') = new /\ localHead'[a] = new
                   /\ commits'[new].parents = {moved}
             /\ local \in Anc(commits', localHead'[a])]_vars

C27_Witness ==
  \E a \in Actors :
    /\ cmd[a].name \in {"claim", "unclaim"}
    /\ Diverged(commits, cmd[a].local0, cmd[a].remote0)
    /\ Shared(commits, cmd[a].local0, cmd[a].remote0) # {}
    /\ cmd[a].synced = cmd[a].local0
    /\ cmd[a].made # <<>>
    /\ commits[cmd[a].made[1]].parents = {cmd[a].local0}

\* C28: with s the Store at the head a claim stands on after its fast-forward
\* step, the claim commits a Store in which the item's claimant is the actor
\* exactly when the item is in s, Open and unclaimed; otherwise it makes no
\* commit and no push, leaves the local head there, and fails: NotFound for a
\* missing item, else Closed or AlreadyClaimed, the latter naming the claimant.
C28_ClaimChecks ==
  \A a \in Actors :
    cmd[a].name = "claim" =>
      LET c == cmd[a]
          s == commits[c.synced].store
      IN  IF X \in Keys(s) /\ s.items[X].status = "Open" /\ s.items[X].claimed_by = None
          THEN /\ c.made # <<>>
               /\ commits[c.made[1]].store.items[X].claimed_by = a
               /\ c.status \notin {"NotFound", "Closed"}
          ELSE /\ c.made = <<>> /\ c.pushes = 0 /\ c.published = 0
               /\ localHead[a] = c.synced
               /\ IF X \notin Keys(s) THEN c.status = "NotFound"
                  ELSE \/ c.status = "Closed" /\ s.items[X].status = "Closed"
                       \/ /\ c.status = "AlreadyClaimed"
                          /\ s.items[X].claimed_by # None
                          /\ c.who = s.items[X].claimed_by

C28_Witness ==
  \E a \in Actors, b \in Actors :
    /\ a # b
    /\ cmd[a].name = "claim" /\ cmd[a].status = "AlreadyClaimed"
    /\ cmd[a].pushes = 0 /\ cmd[a].who = b
    /\ cmd[b].name = "claim" /\ cmd[b].status = "Ok"
    /\ commits[cmd[b].published].store.items[X].claimed_by = b

\* C29: a claim pushes at most twice and comes to an end. After a rejected
\* first push it fetches: if the remote copy of the item has a claimant it
\* fails AlreadyClaimed with no merge and no further push; if not, it makes
\* one merge commit, with the claim commit and the fetched remote head as
\* parents and merge_stores(base, Store with the claim, remote Store) as
\* content, and pushes it once; it fails PushFailed only after that push.
C29_ClaimRetry ==
  /\ [](\A a \in Actors :
          cmd[a].name = "claim" =>
            LET c == cmd[a]
            IN  /\ c.pushes <= 2
                /\ c.status = "PushFailed" => c.pushes = 2
                /\ (c.status = "AlreadyClaimed" /\ c.made # <<>>) =>
                     (c.pushes = 1 /\ c.merges = 0 /\ Len(c.made) = 1)
                /\ c.remote1 # 0 =>
                     IF claimant_of(commits[c.remote1].store, X) # None
                     THEN c.status = "AlreadyClaimed" /\ c.who # None
                     ELSE /\ c.merges = 1 /\ Len(c.made) = 2
                          /\ c.pushes = 2 \/ pc[a] = "claim_push2"
                          /\ commits[c.made[2]].parents = {c.made[1], c.remote1}
                          /\ \E b \in BaseDocs(commits, c.made[1], c.remote1) :
                               commits[c.made[2]].store \in
                                 merge_stores(b, commits[c.made[1]].store,
                                              commits[c.remote1].store))
  /\ \A a \in Actors :
       (pc[a] \in {"claim_push", "claim_retry", "claim_push2"}) ~> (pc[a] = "idle")

C29_Witness ==
  \E a \in Actors :
    /\ cmd[a].name = "claim" /\ cmd[a].pushes = 2 /\ cmd[a].merges = 1
    /\ cmd[a].status = "PushFailed"
    /\ claimant_of(commits[cmd[a].remote1].store, X) = None
    /\ commits[cmd[a].made[2]].store.items[X].claimed_by = a

\* Store s1 is Store s with the claimant of item id cleared, nothing else
\* changed but that item's updated_at.
Unclaimed(s, s1, id) ==
  /\ s1.deps = s.deps
  /\ Keys(s1) = Keys(s)
  /\ \A k \in Keys(s) \ {id} : s1.items[k] = s.items[k]
  /\ s1.items[id] = [s.items[id] EXCEPT !.claimed_by = None,
                                        !.updated_at = s1.items[id].updated_at]

\* C30: with s the Store at the head an unclaim stands on after its
\* fast-forward step and the item in s, the unclaim fails NotClaimed exactly
\* when the item has no claimant there, and then makes no commit and no push;
\* otherwise, whoever the claimant is, it commits s with the claimant cleared
\* and only updated_at changed besides, pushes it, after a rejected push makes
\* one merge commit and pushes once more, and never fails AlreadyClaimed.
C30_Unclaim ==
  \A a \in Actors :
    (cmd[a].name = "unclaim" /\ X \in Keys(commits[cmd[a].synced].store)) =>
      LET c == cmd[a]
          s == commits[c.synced].store
      IN  /\ c.status = "NotClaimed" <=> s.items[X].claimed_by = None
          /\ c.status # "AlreadyClaimed"
          /\ IF s.items[X].claimed_by = None
             THEN c.made = <<>> /\ c.pushes = 0 /\ localHead[a] = c.synced
             ELSE /\ c.made # <<>>
                  /\ commits[c.made[1]].parents = {c.synced}
                  /\ Unclaimed(s, commits[c.made[1]].store, X)
                  /\ c.pushes <= 2
                  /\ c.status = "Ok" => c.published = c.made[Len(c.made)]
                  /\ c.status = "PushFailed" => c.pushes = 2
                  /\ c.pushes = 2 => c.remote1 # 0
                  /\ c.remote1 # 0 =>
                       /\ c.merges = 1 /\ Len(c.made) = 2
                       /\ commits[c.made[2]].parents = {c.made[1], c.remote1}
                       /\ \E b \in BaseDocs(commits, c.made[1], c.remote1) :
                            commits[c.made[2]].store \in
                              merge_stores(b, commits[c.made[1]].store,
                                           commits[c.remote1].store)

C30_Witness ==
  \E a \in Actors :
    /\ cmd[a].name = "unclaim" /\ cmd[a].status = "Ok"
    /\ cmd[a].pushes = 2 /\ cmd[a].merges = 1
    /\ claimant_of(commits[cmd[a].synced].store, X) \notin {None, a}
    /\ remoteHead = cmd[a].made[2]

\* C31: without a remote a sync fails and leaves every local head and every
\* commit as they were; a claim or an unclaim that passes its checks commits
\* its change on the local head and succeeds, and no command fetches or
\* pushes: no tracking ref and no remote ref ever moves.
C31_NoRemote ==
  /\ [][\A a \in Actors :
          Begins(a, "sync") =>
            (cmd'[a].status = "NoRemote" /\ commits' = commits /\ localHead' = localHead)]_vars
  /\ [](\A a \in Actors :
          /\ cmd[a].pushes = 0 /\ cmd[a].published = 0
          /\ pc[a] = "idle"
          /\ tracking[a] = 0
          /\ (cmd[a].name \in {"claim", "unclaim"} /\ cmd[a].made # <<>>) =>
               /\ cmd[a].status = "Ok"
               /\ localHead[a] = cmd[a].made[1]
               /\ commits[cmd[a].made[1]].parents = {cmd[a].local0}
               /\ commits[localHead[a]].store.items[X].claimed_by =
                    (IF cmd[a].name = "claim" THEN a ELSE None)
          /\ (cmd[a].name = "claim" /\ claim_check(commits[cmd[a].local0].store, X).ok) =>
               cmd[a].made # <<>>
          /\ (cmd[a].name = "unclaim" /\ unclaim_check(commits[cmd[a].local0].store, X).ok) =>
               cmd[a].made # <<>>)
  /\ [](remoteHead = 0)

C31_Witness ==
  \E a \in Actors, b \in Actors, c \in Actors :
    /\ cmd[a].name = "claim" /\ cmd[a].status = "Ok"
    /\ cmd[b].name = "unclaim" /\ cmd[b].status = "Ok"
    /\ cmd[c].name = "sync" /\ cmd[c].status = "NoRemote"
    /\ ~has_remote

\* C32: set_parent returns on every document: its ancestor walk comes to an
\* end also where the Parent edges above the new parent close a cycle that
\* does not pass through the child.
C32_SetParentTerminates ==
  call.op = "set_parent" => result.err # "Hang"

\* The Parent edges of s make a forest.
Forest(s) == Acyclic(s) /\ AtMostOneParent(s)

\* C33: on a forest, set_parent of two different items fails CycleDetected
\* exactly when the child is an ancestor of the new parent; every other such
\* call succeeds and leaves a forest.
C33_CycleExact ==
  (/\ call.op = "set_parent" /\ Forest(pre)
   /\ resolve_id(pre, call.args[1]).ok /\ resolve_id(pre, call.args[2]).ok
   /\ resolve_id(pre, call.args[1]).val # resolve_id(pre, call.args[2]).val) =>
    LET child == resolve_id(pre, call.args[1]).val
        parent == resolve_id(pre, call.args[2]).val
    IN  /\ result.err = "CycleDetected" <=> child \in Ancestors(pre, parent)
        /\ child \notin Ancestors(pre, parent) =>
             /\ result.ok /\ Forest(store)
             /\ get_parent(store, child) = <<parent>>

\* A child moved to its grandparent, and a transitive cycle refused.
C33_Witness ==
  /\ call.op = "set_parent" /\ Forest(pre) /\ result.ok
  /\ call.args = <<X, Z>>
  /\ get_parent(pre, X) = <<Y>> /\ get_parent(pre, Y) = <<Z>>
  /\ get_parent(store, X) = <<Z>>

\* C34: when a push of a claim succeeds, the Store at the remote head then
\* holds the item, Open, with the claiming actor as claimant.
C34_ClaimPublished ==
  [][\A a \in Actors :
       (Pushes(a, "claim") /\ cmd'[a].status = "Ok") =>
         LET s == commits[remoteHead'].store
         IN  /\ X \in Keys(s)
             /\ s.items[X].status = "Open"
             /\ s.items[X].claimed_by = a]_vars

\* C35: after a claim that failed AlreadyClaimed or with the push error, the
\* actor's local head is the head it stood on after the fast-forward step,
\* and the Store there does not name the actor as claimant of the item.
C35_FailedClaimNoTrace ==
  \A a \in Actors :
    (cmd[a].name = "claim" /\ cmd[a].status \in {"AlreadyClaimed", "PushFailed"}) =>
      /\ localHead[a] = cmd[a].synced
      /\ claimant_of(commits[localHead[a]].store, X) # a

\* C36: once the actors have stopped editing and one of them has synced, then
\* the other, then the first again, each run undisturbed, the two local heads
\* and the remote head are one commit, and so the three Stores are one.
C36_Converge ==
  (phase.step = "settle" /\ phase.n = 3) =>
    /\ localHead[phase.first] = remoteHead
    /\ localHead[phase.second] = remoteHead
    /\ commits[localHead[phase.first]].store = commits[localHead[phase.second]].store

\* Both actors had commits the other lacked, and both runs merged.
C36_Witness ==
  /\ phase.step = "settle" /\ phase.n = 3
  /\ cmd[phase.second].name = "sync" /\ cmd[phase.second].merges = 1
  /\ Diverged(commits, cmd[phase.second].local0, cmd[phase.second].remote0)
  /\ Shared(commits, cmd[phase.second].local0, cmd[phase.second].remote0) # {}
  /\ cmd[phase.first].name = "sync"
  /\ Behind(commits, cmd[phase.first].local0, cmd[phase.first].remote0)
  /\ remoteHead = cmd[phase.second].made[1]
  /\ commits[remoteHead].store # FirstStore

\* The Store is well formed: distinct ids, a parent forest, no dangling edge.
WellFormed(s) == DistinctIds(s) /\ Forest(s) /\ NoDangling(s)

\* C37: when only one side of a merge differs from a well-formed base, the
\* merged Store has that side's items, field for field, and its edge set:
\* merge(base, d, base) and merge(base, base, d) are both d.
C37_OneSided ==
  (AfterMerge /\ WellFormed(base)) => SameDoc(merged, ours)

\* C38: in every Store of the repository an item whose status is Closed has
\* no claimant.
C38_ClosedUnclaimed ==
  \A k \in 1..Len(commits) :
    \A id \in Keys(commits[k].store) :
      commits[k].store.items[id].status = "Closed" =>
        commits[k].store.items[id].claimed_by = None

\* C39: in the edited Store no item whose status is Closed is the parent of
\* an item whose status is Open.
C39_ClosedParent ==
  \A d \in ParentEdges(ours) :
    (d.from_id \in Keys(ours) /\ d.to_id \in Keys(ours)
     /\ ours.items[d.to_id].status = "Closed") =>
      ours.items[d.from_id].status = "Closed"

\* C40: a graph-engine call that returns an error leaves the Store as it was
\* before the call.
C40_ErrorNoChange ==
  (call.op # "none" /\ ~result.ok) => store = pre

====
